---------------------------- MODULE Spec2Model ----------------------------
(***************************************************************************)
(* State-machine model of the DomiSafe / IntelliHome edge orchestrator:    *)
(* the data-collection loop, the cloud-sync loop, the MQTT callbacks and   *)
(* the command handler of IntelliHome_RaspeberryApp/IntelliHome.           *)
(*                                                                         *)
(* Strings that the program normalises (payloads, the mode) are sequences  *)
(* of one-character strings, so that strip(), title(), upper() and lower() *)
(* are computed character by character.                                    *)
(***************************************************************************)
EXTENDS Integers, Sequences, FiniteSets, TLC

(***************************************************************************)
(* Bounds of the model.                                                    *)
(***************************************************************************)
\* iterations the data-collection loop may start
MaxTicks == 3
\* rows the local env_data table may hold
MaxEnvRows == 2
\* rows the local security_data table may hold
MaxSecRows == 2
\* injected failures: storage / remote-store errors and process crashes
MaxFaults == 2
\* reading of time.time() when the process starts (any epoch far above the intervals)
StartTime == 1000

(***************************************************************************)
(* Program constants (defaults of the configuration).                      *)
(***************************************************************************)
security_check_interval == 5
security_send_interval == 60
env_interval == 360
flushing_interval == 10
cooldown_duration == 10
BackoffSleep == 5

\* Seconds that may pass between the start of one tick and the start of the
\* next: the sleep itself, or the sleep plus a tick that took long (captures,
\* SMTP and the per-feed publish delays all run inside the tick).
TickElapsed == {security_check_interval, security_send_interval}

(***************************************************************************)
(* Characters and the string functions the program applies to payloads.    *)
(***************************************************************************)
LowerCase == <<"h", "o", "m", "e", "a", "w", "y", "n", "f", "t", "k", "p">>
UpperCase == <<"H", "O", "M", "E", "A", "W", "Y", "N", "F", "T", "K", "P">>
Letters == 1..Len(LowerCase)

IsLower(c) == \E i \in Letters : LowerCase[i] = c
IsUpper(c) == \E i \in Letters : UpperCase[i] = c
IsCased(c) == IsLower(c) \/ IsUpper(c)
IsSpace(c) == c = " "

ToUpper(c) == IF IsLower(c) THEN UpperCase[CHOOSE i \in Letters : LowerCase[i] = c] ELSE c
ToLower(c) == IF IsUpper(c) THEN LowerCase[CHOOSE i \in Letters : UpperCase[i] = c] ELSE c

RECURSIVE lstrip(_)
lstrip(s) == IF s # <<>> /\ IsSpace(Head(s)) THEN lstrip(Tail(s)) ELSE s

RECURSIVE rstrip(_)
rstrip(s) == IF s # <<>> /\ IsSpace(s[Len(s)]) THEN rstrip(SubSeq(s, 1, Len(s) - 1)) ELSE s

\* str.strip(): leading and trailing whitespace removed
strip(s) == rstrip(lstrip(s))

\* str.title(): a cased character is upper-cased when it follows an uncased
\* character (or starts the string) and lower-cased otherwise
title(s) == [i \in 1..Len(s) |->
               IF i = 1 \/ ~IsCased(s[i - 1]) THEN ToUpper(s[i]) ELSE ToLower(s[i])]

upper(s) == [i \in 1..Len(s) |-> ToUpper(s[i])]
lower(s) == [i \in 1..Len(s) |-> ToLower(s[i])]

Home == <<"H", "o", "m", "e">>
Away == <<"A", "w", "a", "y">>

\* payloads the broker may deliver on the system-mode feed
ModePayloads ==
  { <<"a", "w", "a", "y">>,
    <<" ", "A", "W", "A", "Y", " ">>,
    <<"h", "O", "m", "E">>,
    <<"A", "w", "a", "y", " ", "H", "o", "m", "e">>,
    <<"H", "o", "m", "e", "1">>,
    <<"o", "f", "f">>,
    <<" ", "A", " ", "w", "a", "y">>,
    <<"H", "o", "m", "e">>,
    <<"A", "w", "a", "y">>,
    <<" ">>,
    <<>> }

CONTROL_FEEDS ==
  [light |-> "light-control", fan |-> "fan-control", buzzer |-> "buzzer-control",
   mode |-> "system-mode", camera |-> "camera-trigger"]

\* the feeds of setup_control_subscribers: list(CONTROL_FEEDS.values())
ControlFeeds == {CONTROL_FEEDS[k] : k \in DOMAIN CONTROL_FEEDS}

\* the devices of initialize_gpios
Devices == {"light", "fan", "buzzer"}

\* payloads the handler and process_command compare with
TAKE_PHOTO == <<"T", "A", "K", "E", "_", "P", "H", "O", "T", "O">>
PHOTO_TAKEN == <<"P", "H", "O", "T", "O", "_", "T", "A", "K", "E", "N">>
One == <<"1">>
Zero == <<"0">>
On == <<"o", "n">>
Off == <<"o", "f", "f">>

\* the alert types of security_module
AlertTypes == {"Motion Detected", "CRITICAL SMOKE ALERT", "Manual Photo Trigger"}


(***************************************************************************)
(* State.                                                                  *)
(***************************************************************************)
VARIABLES
  running,          \* DomiSafeApp.running, the stop flag
  system_mode,      \* DomiSafeApp.system_mode
  mqtt_connected,   \* MQTT_communicator.mqtt_connected
  inbox,            \* message the network loop is handing to on_mqtt_message
  now,              \* time.time()
  ticks,            \* iterations the data-collection loop has started
  dpc,              \* position of the data-collection loop
  current_time,     \* data_collection_loop: current_time of the tick
  timers,           \* data_collection_loop: timers
  security_counts,  \* data_collection_loop: security_counts
  last_fsync,       \* data_collection_loop: last_fsync
  pub,              \* send_to_cloud: feeds done so far and the success flag
  last_capture_time,\* security_module.last_capture_time
  camera_enabled,   \* config 'camera_enabled'
  local_env,        \* local table env_data (committed rows, id = position)
  local_sec,        \* local table security_data
  cloud_env,        \* remote table env_data (committed rows)
  cloud_sec,        \* remote table security_data
  spc,              \* position of the sync loop
  sy,               \* synchronize_to_cloud: its locals and open transactions
  faults,           \* failures injected so far
  tick,             \* what the current tick of the data loop has done (history)
  detected,         \* detections polled since the last summary flush (history)
  unsent,           \* ids of env rows whose send_to_cloud returned False (history)
  subscribed_feeds, \* MQTT_communicator.subscribed_feeds
  broker_subs,      \* feeds subscribed at the broker in the current session
  ever_passed,      \* every feed ever passed to subscribe_to_feeds (history)
  resubscribed,     \* feeds that the latest successful connect subscribed (history)
  call,             \* the last call of send_to_adafruit_io by a client (history)
  devices,          \* device_control_module.devices: status of each device
  hpc,              \* position of the command handler on the network loop
  hist,             \* what the handling of the current message has done (history)
  last_alert_time,  \* security_module.last_alert_time (0: no entry)
  sent_at,          \* time of the last e-mail sent, per alert type (history)
  alert_req,        \* the last call of send_smtp2go_alert since the data loop slept (history)
  motion_log,       \* times of the last motion detection and of the last captures (history)
  client,           \* MQTT_communicator: mqtt_client, command_handler, and the positions of
                    \* setup_control_subscribers and of on_mqtt_connect
  in_capture,       \* the threads inside capture_image, and the capture timestamp that
                    \* get_security_data tested before it entered
  echo_due          \* the broker holds an acknowledgment of this device that it has not
                    \* yet delivered back to it

vars == <<running, system_mode, mqtt_connected, inbox, now, ticks, dpc,
          current_time, timers, security_counts, last_fsync, pub,
          last_capture_time, camera_enabled, local_env, local_sec, cloud_env,
          cloud_sec, spc, sy, faults, tick, detected, unsent, subscribed_feeds,
          broker_subs, ever_passed, resubscribed, call, devices, hpc, hist, last_alert_time,
          sent_at, alert_req, motion_log, client, in_capture, echo_due>>

appVars  == <<running, system_mode>>
dlVars   == <<ticks, dpc, current_time, timers, security_counts, last_fsync,
              pub, tick, detected, unsent>>
secVars  == <<last_capture_time, camera_enabled, motion_log, in_capture>>
dbVars   == <<local_env, local_sec, cloud_env, cloud_sec>>
syncVars == <<spc, sy>>
clientVars == <<subscribed_feeds, broker_subs, ever_passed, resubscribed, call, client>>
chanVars == <<clientVars, echo_due>>
ctlVars  == <<devices, hpc, hist>>
alertVars == <<last_alert_time, sent_at, alert_req>>

Kinds == {"motion", "smoke", "sound"}
NoPublish == [idx |-> 0, success |-> TRUE]
NoMessage == [feed |-> "", payload |-> <<>>]
ZeroCounts == [motion |-> 0, smoke |-> 0, sound |-> 0]
NoTimers == [env_check |-> 0, security_check |-> 0, security_send |-> 0]
FreshTick == [mode_read |-> "none", env_eval |-> FALSE, sampled |-> FALSE,
              summary |-> "none", pubs |-> 0, env_row |-> 0, env_fired |-> FALSE,
              pir |-> FALSE, captured |-> FALSE, t0 |-> NoTimers,
              lost_env |-> FALSE, lost_summary |-> FALSE]
NoCall == [made |-> FALSE, connected |-> FALSE, outcome |-> "none", ret |-> FALSE,
           handed |-> FALSE, raised |-> FALSE]
NoHandling == [feed |-> "", payload |-> <<>>, done |-> FALSE, mode |-> 0, capture |-> 0,
               ack |-> 0, device |-> 0, rejected |-> FALSE, handed |-> 0, echo |-> FALSE]
NoAlerts == [a \in AlertTypes |-> 0]
NoRequest == [type |-> "none", at |-> 0, result |-> "none", bit |-> 0]
AllOff == [d \in Devices |-> "off"]
NoMotion == [at |-> 0, capture_at |-> 0, manual_at |-> 0]
NoCapture == [runloop |-> FALSE, handler |-> FALSE, seen |-> 0]
IdleSync == [observed |-> FALSE, env_records |-> <<>>, security_records |-> <<>>,
             synced_count |-> 0, env |-> "idle", sec |-> "idle",
             cloud_committed |-> FALSE, local_committed |-> FALSE,
             raised |-> "none", pending_env |-> <<>>, pending_sec |-> <<>>]

\* MQTT_communicator.setup_mqtt: outcome tells whether a call of the try
\* block raises.  created: mqtt_client is set; loop: loop_start was called,
\* the network thread exists.  The connected flag is False in every case.
SetupOutcomes == {"ok", "client_raises", "connect_raises"}

\* mutant: the network loop is started before the connect
setup_mqtt_loop_first(outcome) ==
  [setup |-> outcome, created |-> outcome # "client_raises",
   loop |-> outcome # "client_raises", handler |-> FALSE,
   mpc |-> "set_handler", i |-> 1, cpc |-> "idle", arg |-> {}]

setup_mqtt(outcome) ==
  [setup |-> outcome, created |-> outcome # "client_raises",
   loop |-> outcome = "ok", handler |-> FALSE,
   mpc |-> "set_handler", i |-> 1, cpc |-> "idle", arg |-> {}]

\* the client once setup_mqtt has succeeded and setup_control_subscribers
\* has returned
StartedClient ==
  [setup |-> "ok", created |-> TRUE, loop |-> TRUE, handler |-> TRUE,
   mpc |-> "returned", i |-> 1, cpc |-> "idle", arg |-> {}]

\* DomiSafeApp.__init__ and the first lines of the two loops, for a
\* configuration whose 'camera_enabled' is one of cameras; c is the channel
\* client and feeds the feeds it remembers
BootWith(cameras, c, feeds) ==
  /\ running = TRUE
  /\ system_mode = Home
  /\ mqtt_connected = FALSE
  /\ inbox = NoMessage
  /\ now = StartTime
  /\ ticks = 0
  /\ dpc = "top"
  /\ current_time = 0
  /\ timers = [env_check |-> 0, security_check |-> 0, security_send |-> StartTime]
  /\ security_counts = ZeroCounts
  /\ last_fsync = StartTime
  /\ pub = NoPublish
  /\ last_capture_time = 0
  /\ camera_enabled \in cameras
  /\ in_capture = NoCapture
  /\ local_env = <<>>
  /\ local_sec = <<>>
  /\ cloud_env = <<>>
  /\ cloud_sec = <<>>
  /\ spc = "top"
  /\ sy = IdleSync
  /\ faults = 0
  /\ tick = FreshTick
  /\ detected = ZeroCounts
  /\ unsent = {}
  /\ subscribed_feeds = feeds
  /\ broker_subs = {}
  /\ ever_passed = feeds
  /\ resubscribed = {}
  /\ call = NoCall
  /\ client = c
  /\ echo_due = FALSE
  /\ devices = AllOff
  /\ hpc = "idle"
  /\ hist = NoHandling
  /\ last_alert_time = NoAlerts
  /\ sent_at = NoAlerts
  /\ alert_req = NoRequest
  /\ motion_log = NoMotion

\* the program once the constructor has returned, the channel set up
Boot(cameras) == BootWith(cameras, StartedClient, ControlFeeds)

Init == Boot(BOOLEAN)

(***************************************************************************)
(* MQTT_communicator: callbacks of the network loop.                       *)
(***************************************************************************)
\* subscribe_to_feeds: the remembered feeds after the call
remember(remembered, feeds) == remembered \cup feeds

\* subscribe_to_feeds: the broker's subscriptions after the call; a
\* subscription is issued for each of feeds when the client is connected
issue_subscriptions(connected, subs, feeds) == IF connected THEN subs \cup feeds ELSE subs

\* The callbacks on_mqtt_connect, on_mqtt_disconnect and on_mqtt_message run
\* one at a time on the thread of the network loop.
NetworkIdle == inbox = NoMessage /\ hpc = "idle" /\ client.cpc = "idle"

\* mutant: a successful connect subscribes only the control feeds
feeds_on_connect_control_only(remembered) == remembered \cap ControlFeeds

\* on_mqtt_connect: the feeds subscribed again after a successful connect
feeds_on_connect(remembered) == remembered

\* on_mqtt_connect(rc): a refused connection (rc # 0) has no session
on_mqtt_connect(rc) ==
  /\ client.loop
  /\ NetworkIdle
  /\ mqtt_connected' = (rc = 0)
  /\ IF rc = 0
       THEN /\ subscribed_feeds' = remember(subscribed_feeds, feeds_on_connect(subscribed_feeds))
            /\ broker_subs' = issue_subscriptions(TRUE, broker_subs,
                                                  feeds_on_connect(subscribed_feeds))
            /\ resubscribed' = feeds_on_connect(subscribed_feeds)
       ELSE /\ broker_subs' = {}
            /\ resubscribed' = {}
            /\ UNCHANGED subscribed_feeds
  /\ UNCHANGED <<appVars, inbox, now, dlVars, secVars, dbVars, syncVars, faults,
                 ever_passed, call, client, echo_due, ctlVars, alertVars>>

\* on_mqtt_disconnect: the session ends, and with it its subscriptions at
\* the broker
on_mqtt_disconnect ==
  /\ client.loop
  /\ NetworkIdle
  /\ mqtt_connected
  /\ mqtt_connected' = FALSE
  /\ broker_subs' = {}
  /\ resubscribed' = {}
  /\ UNCHANGED <<appVars, inbox, now, dlVars, secVars, dbVars, syncVars, faults,
                 subscribed_feeds, ever_passed, call, client, echo_due, ctlVars, alertVars>>

\* a client calls subscribe_to_feeds(feeds)
subscribe_to_feeds(feeds) ==
  /\ subscribed_feeds' = remember(subscribed_feeds, feeds)
  /\ broker_subs' = issue_subscriptions(mqtt_connected, broker_subs, feeds)
  /\ ever_passed' = ever_passed \cup feeds
  /\ UNCHANGED <<appVars, mqtt_connected, inbox, now, dlVars, secVars, dbVars, syncVars,
                 faults, resubscribed, call, client, echo_due, ctlVars, alertVars>>

\* mutant: an exception of the transport reaches the caller
publish_uncaught(connected, outcome) ==
  [made |-> TRUE, connected |-> connected, outcome |-> outcome,
   ret |-> connected /\ outcome = "accepted",
   handed |-> connected,
   raised |-> connected /\ outcome = "raises"]

\* send_to_adafruit_io: what one call does.  outcome is the answer of
\* mqtt_client.publish: "accepted" (MQTT_ERR_SUCCESS), "rejected" (any other
\* result) or "raises"; handed tells whether mqtt_client.publish was called.
publish(connected, outcome) ==
  [made |-> TRUE, connected |-> connected, outcome |-> outcome,
   ret |-> connected /\ outcome = "accepted",
   handed |-> connected,
   raised |-> FALSE]

PublishOutcomes == {"accepted", "rejected", "raises"}

\* send_to_adafruit_io: the value returned; accepted is the result of the
\* transport's publish
send_to_adafruit_io(connected, accepted) ==
  publish(connected, IF accepted THEN "accepted" ELSE "rejected").ret

\* a client calls send_to_adafruit_io
CallPublish(outcome) ==
  /\ call' = publish(mqtt_connected, outcome)
  /\ UNCHANGED <<appVars, mqtt_connected, inbox, now, dlVars, secVars, dbVars, syncVars,
                 faults, subscribed_feeds, broker_subs, ever_passed, resubscribed,
                 client, echo_due, ctlVars, alertVars>>

\* the acknowledgment that an accepted publish of the handler leaves at the
\* broker: a message of the camera-trigger feed, to which this device is
\* subscribed, with the payload PHOTO_TAKEN
is_echo(due, feed, payload) ==
  due /\ feed = CONTROL_FEEDS.camera /\ payload = PHOTO_TAKEN

\* the broker delivers a message of a subscribed feed to the network loop
Deliver(feed, payload) ==
  /\ mqtt_connected
  /\ feed \in broker_subs
  /\ NetworkIdle
  /\ inbox' = [feed |-> feed, payload |-> payload]
  /\ hist' = [NoHandling EXCEPT !.feed = feed, !.payload = payload,
                                !.echo = is_echo(echo_due, feed, payload)]
  /\ echo_due' = (echo_due /\ ~is_echo(echo_due, feed, payload))
  /\ UNCHANGED <<appVars, mqtt_connected, now, dlVars, secVars, dbVars, syncVars, faults,
                 clientVars, devices, hpc, alertVars>>

(***************************************************************************)
(* Startup: setup_control_subscribers on the main thread, and the          *)
(* statements of on_mqtt_connect on the thread of the network loop, which  *)
(* setup_mqtt has started before the constructor goes on.                  *)
(***************************************************************************)
\* what neither thread touches during startup
startupRest == <<appVars, inbox, now, dlVars, secVars, dbVars, syncVars, faults, call,
                 echo_due, ctlVars, alertVars>>

\* setup_control_subscribers: list(CONTROL_FEEDS.values())
FeedList ==
  <<CONTROL_FEEDS.light, CONTROL_FEEDS.fan, CONTROL_FEEDS.buzzer, CONTROL_FEEDS.mode,
    CONTROL_FEEDS.camera>>

\* setup_control_subscribers: set_command_handler(handle_incoming_mqtt_command)
SetCommandHandler ==
  /\ client.mpc = "set_handler"
  /\ client' = [client EXCEPT !.handler = TRUE, !.mpc = "store"]
  /\ UNCHANGED <<startupRest, mqtt_connected, subscribed_feeds, broker_subs, ever_passed,
                 resubscribed>>

\* mutant: the feeds are not stored
SUB_Store_skipped ==
  /\ client.mpc = "store"
  /\ ever_passed' = ever_passed \cup ControlFeeds
  /\ client' = [client EXCEPT !.mpc = "test"]
  /\ UNCHANGED <<startupRest, mqtt_connected, broker_subs, resubscribed, subscribed_feeds>>

\* subscribe_to_feeds on the main thread: the feeds are stored
SUB_Store ==
  /\ client.mpc = "store"
  /\ subscribed_feeds' = remember(subscribed_feeds, ControlFeeds)
  /\ ever_passed' = ever_passed \cup ControlFeeds
  /\ client' = [client EXCEPT !.mpc = "test"]
  /\ UNCHANGED <<startupRest, mqtt_connected, broker_subs, resubscribed>>

\* subscribe_to_feeds on the main thread: the test of the connected flag
SUB_Test ==
  /\ client.mpc = "test"
  /\ client' = [client EXCEPT !.mpc = IF mqtt_connected THEN "subscribe" ELSE "returned"]
  /\ UNCHANGED <<startupRest, mqtt_connected, subscribed_feeds, broker_subs, ever_passed,
                 resubscribed>>

\* subscribe_to_feeds on the main thread: one turn of the loop over the
\* feeds; a subscribe of a client without a session reaches no broker
SUB_Subscribe ==
  /\ client.mpc = "subscribe"
  /\ broker_subs' = issue_subscriptions(mqtt_connected, broker_subs, {FeedList[client.i]})
  /\ client' = IF client.i = Len(FeedList)
                 THEN [client EXCEPT !.mpc = "returned", !.i = 1]
                 ELSE [client EXCEPT !.i = @ + 1]
  /\ UNCHANGED <<startupRest, mqtt_connected, subscribed_feeds, ever_passed, resubscribed>>

SetupControlSubscribers ==
  \/ SetCommandHandler
  \/ SUB_Store
  \/ SUB_Test
  \/ SUB_Subscribe

\* on_mqtt_connect: the connected flag is set from rc
OC_SetFlag(rc) ==
  /\ client.loop
  /\ NetworkIdle
  /\ mqtt_connected' = (rc = 0)
  /\ IF rc = 0
       THEN /\ client' = [client EXCEPT !.cpc = "test_feeds"]
            /\ UNCHANGED <<broker_subs, resubscribed>>
       ELSE /\ broker_subs' = {}
            /\ resubscribed' = {}
            /\ UNCHANGED client
  /\ UNCHANGED <<startupRest, subscribed_feeds, ever_passed>>

\* on_mqtt_connect: the test of the stored feeds, which become the argument
\* of subscribe_to_feeds
OC_TestFeeds ==
  /\ client.cpc = "test_feeds"
  /\ IF subscribed_feeds # {}
       THEN /\ client' = [client EXCEPT !.cpc = "store",
                                        !.arg = feeds_on_connect(subscribed_feeds)]
            /\ UNCHANGED resubscribed
       ELSE /\ client' = [client EXCEPT !.cpc = "idle"]
            /\ resubscribed' = {}
  /\ UNCHANGED <<startupRest, mqtt_connected, subscribed_feeds, broker_subs, ever_passed>>

\* subscribe_to_feeds on the network thread: the feeds are stored
OC_Store ==
  /\ client.cpc = "store"
  /\ subscribed_feeds' = remember(subscribed_feeds, client.arg)
  /\ client' = [client EXCEPT !.cpc = "test_flag"]
  /\ UNCHANGED <<startupRest, mqtt_connected, broker_subs, ever_passed, resubscribed>>

\* subscribe_to_feeds on the network thread: the test of the connected flag
OC_TestFlag ==
  /\ client.cpc = "test_flag"
  /\ IF mqtt_connected
       THEN /\ client' = [client EXCEPT !.cpc = "subscribe"]
            /\ UNCHANGED resubscribed
       ELSE /\ client' = [client EXCEPT !.cpc = "idle", !.arg = {}]
            /\ resubscribed' = {}
  /\ UNCHANGED <<startupRest, mqtt_connected, subscribed_feeds, broker_subs, ever_passed>>

\* subscribe_to_feeds on the network thread: the loop over the feeds.  No
\* other callback runs before it ends, and the main thread only adds
\* subscriptions, so the loop is one step.
OC_Subscribe ==
  /\ client.cpc = "subscribe"
  /\ broker_subs' = issue_subscriptions(mqtt_connected, broker_subs, client.arg)
  /\ resubscribed' = client.arg
  /\ client' = [client EXCEPT !.cpc = "idle", !.arg = {}]
  /\ UNCHANGED <<startupRest, mqtt_connected, subscribed_feeds, ever_passed>>

OnConnectSteps ==
  \/ \E rc \in {0, 5} : OC_SetFlag(rc)
  \/ OC_TestFeeds
  \/ OC_Store
  \/ OC_TestFlag
  \/ OC_Subscribe

(***************************************************************************)
(* security_module: the alert cooldown.                                    *)
(***************************************************************************)
ALERT_COOLDOWN == 300

\* mutant: one cooldown for all alert types
in_alert_cooldown_any(last_alert, alert_type, t) ==
  \E a \in AlertTypes : last_alert[a] # 0 /\ t - last_alert[a] < ALERT_COOLDOWN

\* if self.last_alert_time.get(alert_type) and (now - ... < self.ALERT_COOLDOWN)
in_alert_cooldown(last_alert, alert_type, t) ==
  last_alert[alert_type] # 0 /\ t - last_alert[alert_type] < ALERT_COOLDOWN

\* send_smtp2go_alert: smtp_ok = FALSE is any failure of building or sending
\* the e-mail, which the method logs and swallows
send_smtp2go_alert(last_alert, alert_type, t, smtp_ok) ==
  IF in_alert_cooldown(last_alert, alert_type, t)
    THEN [ret |-> FALSE, result |-> "suppressed", last_alert_time |-> last_alert]
    ELSE IF smtp_ok
      THEN [ret |-> TRUE, result |-> "sent",
            last_alert_time |-> [last_alert EXCEPT ![alert_type] = t]]
      ELSE [ret |-> FALSE, result |-> "failed", last_alert_time |-> last_alert]

\* the state of the alerts after a call of send_smtp2go_alert at time t
AlertRequested(alert_type, t, smtp_ok) ==
  LET r == send_smtp2go_alert(last_alert_time, alert_type, t, smtp_ok)
  IN  /\ last_alert_time' = r.last_alert_time
      /\ sent_at' = IF r.result = "sent" THEN [sent_at EXCEPT ![alert_type] = t] ELSE sent_at
      /\ alert_req' = [type |-> alert_type, at |-> t, result |-> r.result,
                       bit |-> 1 - alert_req.bit]

(***************************************************************************)
(* device_control_module and DomiSafeApp: command handling.                *)
(***************************************************************************)
\* mutant: the command is compared as it came
process_command_cased(devs, device_name, command) ==
  IF device_name \notin DOMAIN devs
    THEN [ret |-> FALSE, devices |-> devs]
    ELSE IF command \in {On, One}
      THEN [ret |-> TRUE, devices |-> [devs EXCEPT ![device_name] = "on"]]
      ELSE IF command \in {Off, Zero}
        THEN [ret |-> TRUE, devices |-> [devs EXCEPT ![device_name] = "off"]]
        ELSE [ret |-> FALSE, devices |-> devs]

\* device_control_module.process_command
process_command(devs, device_name, command) ==
  LET cmd == lower(command)
  IN  IF device_name \notin DOMAIN devs
        THEN [ret |-> FALSE, devices |-> devs]
        ELSE IF cmd \in {On, One}
          THEN [ret |-> TRUE, devices |-> [devs EXCEPT ![device_name] = "on"]]
          ELSE IF cmd \in {Off, Zero}
            THEN [ret |-> TRUE, devices |-> [devs EXCEPT ![device_name] = "off"]]
            ELSE [ret |-> FALSE, devices |-> devs]

\* mutant: the payload is title-cased but not stripped
set_system_mode_unstripped(mode, new_mode_raw) ==
  LET new_mode == title(new_mode_raw)
  IN  IF new_mode \in {Home, Away} THEN new_mode ELSE mode

\* set_system_mode: the mode after the call
set_system_mode(mode, new_mode_raw) ==
  LET new_mode == title(strip(new_mode_raw))
  IN  IF new_mode \in {Home, Away} THEN new_mode ELSE mode

\* mutant: every message of the camera-trigger feed is a capture command
is_capture_command_any(feed_name, payload) == feed_name = CONTROL_FEEDS.camera

\* feed_name == CONTROL_FEEDS['camera'] and payload.upper() in ('TAKE_PHOTO', '1')
is_capture_command(feed_name, payload) ==
  feed_name = CONTROL_FEEDS.camera /\ upper(payload) \in {TAKE_PHOTO, One}

\* mutant: a feed that matches no device is routed to the light
routed_devices_default(feed_name) ==
  IF \E d \in Devices : CONTROL_FEEDS[d] = feed_name
    THEN {d \in Devices : CONTROL_FEEDS[d] = feed_name}
    ELSE {"light"}

\* for device_name, feed_key in CONTROL_FEEDS.items(): the names the loop
\* passes to process_command
routed_devices(feed_name) ==
  {d \in DOMAIN CONTROL_FEEDS :
     CONTROL_FEEDS[d] = feed_name /\ d \notin {"mode", "camera"}}

\* on_mqtt_message -> handle_incoming_mqtt_command(feed_name, payload), up to
\* the call of trigger_manual_capture
handle_incoming_mqtt_command ==
  /\ inbox # NoMessage
  /\ hpc = "idle"
  /\ IF inbox.feed = CONTROL_FEEDS.mode
       THEN /\ system_mode' = set_system_mode(system_mode, inbox.payload)
            /\ hist' = [hist EXCEPT !.mode = @ + 1, !.done = TRUE]
            /\ inbox' = NoMessage
            /\ UNCHANGED <<devices, hpc>>
       ELSE IF is_capture_command(inbox.feed, inbox.payload)
         THEN /\ hpc' = "capture"
              /\ UNCHANGED <<system_mode, devices, hist, inbox>>
         ELSE /\ IF routed_devices(inbox.feed) = {}
                   THEN /\ devices' = devices
                        /\ hist' = [hist EXCEPT !.done = TRUE]
                   ELSE LET r == process_command(
                                   devices, CHOOSE d \in routed_devices(inbox.feed) : TRUE,
                                   inbox.payload)
                        IN  /\ devices' = r.devices
                            /\ hist' = [hist EXCEPT !.device = @ + 1, !.rejected = ~r.ret,
                                                    !.done = TRUE]
              /\ inbox' = NoMessage
              /\ UNCHANGED <<system_mode, hpc>>
  /\ UNCHANGED <<running, mqtt_connected, now, dlVars, secVars, dbVars, syncVars, faults,
                 chanVars, alertVars>>

\* security_module.trigger_manual_capture: capture_image(prefix='manual'), the
\* capture timestamp, the alert; a failed capture returns no image and is not
\* an error
H_ManualCapture(smtp_ok) ==
  /\ hpc = "capture"
  /\ last_capture_time' = now
  /\ motion_log' = [motion_log EXCEPT !.manual_at = now]
  /\ AlertRequested("Manual Photo Trigger", now, smtp_ok)
  /\ hist' = [hist EXCEPT !.capture = @ + 1]
  /\ hpc' = "ack"
  /\ UNCHANGED <<appVars, mqtt_connected, inbox, now, dlVars, camera_enabled, in_capture, dbVars,
                 syncVars, faults, chanVars, devices>>

\* mutant: the acknowledgment is counted before the capture
ack_position_early(position) == position \in {"capture", "ack"}

\* the position at which the handler sends the acknowledgment
ack_position(position) == position = "ack"

\* send_to_adafruit_io(CONTROL_FEEDS['camera'], "PHOTO_TAKEN"); return
H_Ack(outcome) ==
  /\ ack_position(hpc)
  /\ hist' = [hist EXCEPT !.ack = @ + 1,
                          !.handed = @ + (IF publish(mqtt_connected, outcome).handed
                                            THEN 1 ELSE 0),
                          !.done = TRUE]
  /\ echo_due' = (echo_due \/ publish(mqtt_connected, outcome).ret)
  /\ hpc' = "idle"
  /\ inbox' = NoMessage
  /\ UNCHANGED <<appVars, mqtt_connected, now, dlVars, secVars, dbVars, syncVars, faults,
                 clientVars, devices, alertVars>>

(***************************************************************************)
(* DB_Manager: the local inserts.                                          *)
(***************************************************************************)
\* mutant: the row is added although the insert failed
insert_env_data_always(table, ok) ==
  Append(table, [ts |-> Len(table) + 1, synced |-> 0])

\* insert_env_data: the table after the call; ok = FALSE is a storage error,
\* which the method logs and swallows.  The sample's timestamp is distinct from
\* every other row's and is represented by the ordinal of the row.
insert_env_data(table, ok) ==
  IF ok THEN Append(table, [ts |-> Len(table) + 1, synced |-> 0]) ELSE table

\* insert_security_summary
insert_security_summary(table, data, ok) ==
  IF ok
    THEN Append(table, [ts |-> Len(table) + 1, motion_count |-> data.motion_count,
                        smoke_count |-> data.smoke_count,
                        sound_count |-> data.sound_count, synced |-> 0])
    ELSE table

\* a client calls insert_env_data
CallInsertEnv(ok) ==
  /\ Len(local_env) < MaxEnvRows
  /\ ok \/ faults < MaxFaults
  /\ local_env' = insert_env_data(local_env, ok)
  /\ faults' = IF ok THEN faults ELSE faults + 1
  /\ UNCHANGED <<appVars, mqtt_connected, inbox, chanVars, ctlVars, alertVars, now, dlVars, secVars, local_sec,
                 cloud_env, cloud_sec, syncVars>>

\* a client calls insert_security_summary
CallInsertSummary(data, ok) ==
  /\ Len(local_sec) < MaxSecRows
  /\ ok \/ faults < MaxFaults
  /\ local_sec' = insert_security_summary(local_sec, data, ok)
  /\ faults' = IF ok THEN faults ELSE faults + 1
  /\ UNCHANGED <<appVars, mqtt_connected, inbox, chanVars, ctlVars, alertVars, now, dlVars, secVars, local_env,
                 cloud_env, cloud_sec, syncVars>>

\* mutant: every motion detection captures, whatever the cooldown
get_security_data_no_cooldown(pir, smoke, t, last_capture, camera) ==
  LET capture == pir /\ camera
  IN  [motion_detected |-> pir,
       smoke_detected |-> smoke,
       sound_detected |-> FALSE,
       captured |-> capture,
       last_capture_time |-> IF capture THEN t ELSE last_capture,
       alert |-> IF pir /\ camera
                   THEN "Motion Detected"
                   ELSE IF smoke THEN "CRITICAL SMOKE ALERT" ELSE "none"]

(***************************************************************************)
(* security_module.get_security_data: the sample returned for the sensor   *)
(* readings pir and smoke at time t, and the capture it performs.          *)
(***************************************************************************)
get_security_data(pir, smoke, t, last_capture, camera) ==
  LET capture == pir /\ camera /\ (t - last_capture > cooldown_duration)
      suppressed == pir /\ camera /\ ~(t - last_capture > cooldown_duration)
  IN  [motion_detected |-> IF suppressed THEN FALSE ELSE pir,
       smoke_detected |-> smoke,
       sound_detected |-> FALSE,
       captured |-> capture,
       last_capture_time |-> IF capture THEN t ELSE last_capture,
       alert |-> IF pir /\ camera
                   THEN IF capture THEN "Motion Detected" ELSE "none"
                   ELSE IF smoke THEN "CRITICAL SMOKE ALERT" ELSE "none"]

\* the history of detections after a poll at time t: a motion detection is a
\* poll that reads the PIR sensor high while the camera is enabled
log_motion(log, pir, camera, captured, t) ==
  IF pir /\ camera
    THEN [log EXCEPT !.at = t, !.capture_at = IF captured THEN t ELSE @]
    ELSE log

(***************************************************************************)
(* DomiSafeApp: the data-collection loop.                                  *)
(***************************************************************************)
\* the test of an interval gate
GateOpen(t, timer, interval) == t - timer >= interval

\* mutant: any detection increments every count
count_detections_any(counts, sec_data) ==
  LET any == sec_data.motion_detected \/ sec_data.smoke_detected \/ sec_data.sound_detected
  IN  [motion |-> IF any THEN counts.motion + 1 ELSE counts.motion,
       smoke  |-> IF any THEN counts.smoke + 1 ELSE counts.smoke,
       sound  |-> IF any THEN counts.sound + 1 ELSE counts.sound]

\* collect_security_data: the counts after one sample
count_detections(counts, sec_data) ==
  [motion |-> IF sec_data.motion_detected THEN counts.motion + 1 ELSE counts.motion,
   smoke  |-> IF sec_data.smoke_detected THEN counts.smoke + 1 ELSE counts.smoke,
   sound  |-> IF sec_data.sound_detected THEN counts.sound + 1 ELSE counts.sound]

\* collect_security_data: the summary built from the counts
security_summary(counts) ==
  [motion_count |-> counts.motion, smoke_count |-> counts.smoke,
   sound_count |-> counts.sound]

\* mutant: a summary is due whenever the gate is open
AnyCount_always(counts) == TRUE

\* if security_counts['motion'] > 0 or ... ['smoke'] > 0 or ... ['sound'] > 0
AnyCount(counts) == counts.motion > 0 \/ counts.smoke > 0 \/ counts.sound > 0

\* while self.running: current_time = time.time()
DL_Top ==
  /\ dpc = "top"
  /\ IF running
       THEN /\ ticks < MaxTicks
            /\ ticks' = ticks + 1
            /\ current_time' = now
            /\ tick' = [FreshTick EXCEPT !.t0 = timers]
            /\ dpc' = "env"
       ELSE /\ dpc' = "done"
            /\ UNCHANGED <<ticks, current_time, tick>>
  /\ UNCHANGED <<unsent, appVars, mqtt_connected, inbox, chanVars, ctlVars, alertVars, now, timers, security_counts,
                 last_fsync, pub, detected, secVars, dbVars, syncVars, faults>>

\* collect_environmental_data up to the insert: log_ok = FALSE is the write to
\* the log file raising, db_ok = FALSE a failed local insert
DL_CollectEnv(log_ok, db_ok) ==
  /\ dpc = "env"
  /\ IF GateOpen(current_time, timers.env_check, env_interval)
       THEN IF ~log_ok
              THEN /\ db_ok
                   /\ dpc' = "backoff"
                   /\ UNCHANGED <<local_env, pub, faults>>
              ELSE /\ Len(local_env) < MaxEnvRows
                   /\ db_ok \/ faults < MaxFaults
                   /\ local_env' = insert_env_data(local_env, db_ok)
                   /\ faults' = IF db_ok THEN faults ELSE faults + 1
                   /\ pub' = NoPublish
                   /\ dpc' = "env_pub"
       ELSE /\ log_ok /\ db_ok
            /\ dpc' = "mode"
            /\ UNCHANGED <<local_env, pub, faults>>
  /\ tick' = [tick EXCEPT !.env_eval = TRUE,
                          !.env_fired = GateOpen(current_time, timers.env_check, env_interval),
                          !.lost_env = dpc' = "env_pub" /\ ~db_ok,
                          !.env_row = IF local_env' # local_env THEN Len(local_env') ELSE 0]
  /\ UNCHANGED <<unsent, appVars, mqtt_connected, inbox, chanVars, ctlVars, alertVars, now, ticks, current_time, timers,
                 security_counts, last_fsync, detected, secVars, local_sec,
                 cloud_env, cloud_sec, syncVars>>

\* send_to_cloud(env_data, ENV_FEEDS): one feed per step; after the last feed
\* the env timer is set
DL_EnvPublish(accepted) ==
  /\ dpc = "env_pub"
  /\ mqtt_connected \/ accepted
  /\ pub' = [idx |-> pub.idx + 1,
             success |-> pub.success /\ send_to_adafruit_io(mqtt_connected, accepted)]
  /\ tick' = [tick EXCEPT !.pubs = @ + 1]
  /\ IF pub.idx + 1 = 3
       THEN /\ timers' = [timers EXCEPT !.env_check = current_time]
            /\ unsent' = IF ~pub'.success /\ tick.env_row # 0
                            THEN unsent \cup {tick.env_row} ELSE unsent
            /\ dpc' = "mode"
       ELSE UNCHANGED <<timers, dpc, unsent>>
  /\ UNCHANGED <<appVars, mqtt_connected, inbox, chanVars, ctlVars, alertVars, now, ticks, current_time,
                 security_counts, last_fsync, detected, secVars, dbVars, syncVars,
                 faults>>

\* mutant: collect_security_data is called whatever the mode
DL_ModeCheck_ungated ==
  /\ dpc = "mode"
  /\ tick' = [tick EXCEPT !.mode_read = IF system_mode = Away THEN "Away" ELSE "Home"]
  /\ dpc' = "sec"
  /\ UNCHANGED <<unsent, appVars, mqtt_connected, inbox, chanVars, ctlVars, alertVars, now, ticks, current_time,
                 timers, security_counts, last_fsync, pub, detected, secVars, dbVars,
                 syncVars, faults>>

\* if self.system_mode == 'Away': collect_security_data(...)
DL_ModeCheck ==
  /\ dpc = "mode"
  /\ tick' = [tick EXCEPT !.mode_read = IF system_mode = Away THEN "Away" ELSE "Home"]
  /\ dpc' = IF system_mode = Away THEN "sec" ELSE "flush"
  /\ UNCHANGED <<unsent, appVars, mqtt_connected, inbox, chanVars, ctlVars, alertVars, now, ticks, current_time, timers,
                 security_counts, last_fsync, pub, detected, secVars, dbVars,
                 syncVars, faults>>

\* collect_security_data, the security-poll gate: raises = "sensor" is the
\* sensor read raising, raises = "log" the write to the log file raising;
\* smtp_ok is the outcome of the e-mail, should get_security_data send one
DL_SecurityPoll(pir, smoke, raises, smtp_ok) ==
  /\ dpc = "sec"
  /\ IF GateOpen(current_time, timers.security_check, security_check_interval)
       THEN   LET sec_data == get_security_data(pir, smoke, now, last_capture_time,
                                                camera_enabled)
                  any == sec_data.motion_detected \/ sec_data.smoke_detected
                           \/ sec_data.sound_detected
              IN  IF raises = "sensor"
                    THEN /\ ~pir /\ ~smoke
                         /\ dpc' = "backoff"
                         /\ UNCHANGED <<security_counts, detected, timers,
                                        last_capture_time, motion_log, tick, alertVars>>
                    ELSE /\ raises = "log" => any
                         /\ security_counts' = count_detections(security_counts, sec_data)
                         /\ detected' = [k \in Kinds |->
                                           IF sec_data[k \o "_detected"]
                                             THEN detected[k] + 1 ELSE detected[k]]
                         /\ last_capture_time' = sec_data.last_capture_time
                         /\ motion_log' = log_motion(motion_log, pir, camera_enabled,
                                                     sec_data.captured, now)
                         /\ IF sec_data.alert = "none"
                              THEN UNCHANGED alertVars
                              ELSE AlertRequested(sec_data.alert, now, smtp_ok)
                         /\ tick' = [tick EXCEPT !.sampled = TRUE, !.pir = pir,
                                                 !.captured = sec_data.captured]
                         /\ IF raises = "log"
                              THEN dpc' = "backoff" /\ UNCHANGED timers
                              ELSE /\ dpc' = "summary"
                                   /\ timers' = [timers EXCEPT !.security_check = current_time]
       ELSE /\ ~pir /\ ~smoke /\ raises = "none"
            /\ dpc' = "summary"
            /\ UNCHANGED <<security_counts, detected, timers, last_capture_time,
                           motion_log, tick, alertVars>>
  /\ UNCHANGED <<unsent, appVars, mqtt_connected, inbox, chanVars, ctlVars, now, ticks,
                 current_time, last_fsync, pub, camera_enabled, in_capture, dbVars, syncVars,
                 faults>>

\* capture_image takes more than a second (two sleeps and the camera), and
\* both of its callers run it without a lock.  The steps below split the
\* two captures at the entry and the return of capture_image.

\* get_security_data up to the call of capture_image: the PIR sensor reads
\* high, the camera is enabled and the cooldown test has passed
DL_CaptureBegin ==
  /\ dpc = "sec"
  /\ GateOpen(current_time, timers.security_check, security_check_interval)
  /\ get_security_data(TRUE, FALSE, now, last_capture_time, camera_enabled).captured
  /\ in_capture' = [in_capture EXCEPT !.runloop = TRUE, !.seen = last_capture_time]
  /\ dpc' = "capturing"
  /\ UNCHANGED <<appVars, mqtt_connected, inbox, now, ticks, current_time, timers,
                 security_counts, last_fsync, pub, tick, detected, unsent,
                 last_capture_time, camera_enabled, motion_log, dbVars, syncVars,
                 faults, chanVars, ctlVars, alertVars>>

\* get_security_data from the return of capture_image on, and the rest of
\* the poll in collect_security_data
DL_CaptureEnd(smoke, smtp_ok) ==
  /\ dpc = "capturing"
  /\ LET sec_data == get_security_data(TRUE, smoke, now, in_capture.seen, camera_enabled)
     IN  /\ security_counts' = count_detections(security_counts, sec_data)
         /\ detected' = [k \in Kinds |->
                           IF sec_data[k \o "_detected"]
                             THEN detected[k] + 1 ELSE detected[k]]
         /\ last_capture_time' = sec_data.last_capture_time
         /\ motion_log' = log_motion(motion_log, TRUE, camera_enabled, sec_data.captured, now)
         /\ AlertRequested(sec_data.alert, now, smtp_ok)
         /\ tick' = [tick EXCEPT !.sampled = TRUE, !.pir = TRUE,
                                 !.captured = sec_data.captured]
  /\ in_capture' = [in_capture EXCEPT !.runloop = FALSE]
  /\ timers' = [timers EXCEPT !.security_check = current_time]
  /\ dpc' = "summary"
  /\ UNCHANGED <<unsent, appVars, mqtt_connected, inbox, chanVars, ctlVars, now, ticks,
                 current_time, last_fsync, pub, camera_enabled, dbVars, syncVars, faults>>

\* a poll of get_security_data that does not capture
QuietPoll(pir, smoke, smtp_ok) ==
  /\ ~get_security_data(pir, smoke, now, last_capture_time, camera_enabled).captured
  /\ DL_SecurityPoll(pir, smoke, "none", smtp_ok)

\* trigger_manual_capture up to the call of capture_image
H_CaptureBegin ==
  /\ hpc = "capture"
  /\ in_capture' = [in_capture EXCEPT !.handler = TRUE]
  /\ hpc' = "capturing"
  /\ UNCHANGED <<appVars, mqtt_connected, inbox, now, dlVars, last_capture_time,
                 camera_enabled, motion_log, dbVars, syncVars, faults, chanVars, devices,
                 hist, alertVars>>

\* mutant: the manual capture leaves the capture timestamp alone
H_CaptureEnd_no_stamp(smtp_ok) ==
  /\ hpc = "capturing"
  /\ in_capture' = [in_capture EXCEPT !.handler = FALSE]
  /\ motion_log' = [motion_log EXCEPT !.manual_at = now]
  /\ AlertRequested("Manual Photo Trigger", now, smtp_ok)
  /\ hist' = [hist EXCEPT !.capture = @ + 1]
  /\ hpc' = "ack"
  /\ UNCHANGED <<appVars, mqtt_connected, inbox, now, dlVars, camera_enabled, dbVars,
                 syncVars, faults, chanVars, devices, last_capture_time>>

\* trigger_manual_capture from the return of capture_image on
H_CaptureEnd(smtp_ok) ==
  /\ hpc = "capturing"
  /\ in_capture' = [in_capture EXCEPT !.handler = FALSE]
  /\ last_capture_time' = now
  /\ motion_log' = [motion_log EXCEPT !.manual_at = now]
  /\ AlertRequested("Manual Photo Trigger", now, smtp_ok)
  /\ hist' = [hist EXCEPT !.capture = @ + 1]
  /\ hpc' = "ack"
  /\ UNCHANGED <<appVars, mqtt_connected, inbox, now, dlVars, camera_enabled, dbVars,
                 syncVars, faults, chanVars, devices>>

\* collect_security_data, the summary-report gate up to the insert
DL_Summary(db_ok) ==
  /\ dpc = "summary"
  /\ IF GateOpen(current_time, timers.security_send, security_send_interval)
       THEN IF AnyCount(security_counts)
              THEN /\ Len(local_sec) < MaxSecRows
                   /\ db_ok \/ faults < MaxFaults
                   /\ local_sec' = insert_security_summary(
                                      local_sec, security_summary(security_counts), db_ok)
                   /\ faults' = IF db_ok THEN faults ELSE faults + 1
                   /\ pub' = NoPublish
                   /\ tick' = [tick EXCEPT !.summary = "flushed", !.lost_summary = ~db_ok]
                   /\ dpc' = "sec_pub"
                   /\ UNCHANGED timers
              ELSE /\ db_ok
                   /\ timers' = [timers EXCEPT !.security_send = current_time]
                   /\ tick' = [tick EXCEPT !.summary = "noop"]
                   /\ dpc' = "flush"
                   /\ UNCHANGED <<local_sec, pub, faults>>
       ELSE /\ db_ok
            /\ dpc' = "flush"
            /\ UNCHANGED <<local_sec, pub, faults, timers, tick>>
  /\ UNCHANGED <<unsent, appVars, mqtt_connected, inbox, chanVars, ctlVars, alertVars, now, ticks, current_time,
                 security_counts, last_fsync, detected, secVars, local_env,
                 cloud_env, cloud_sec, syncVars>>

\* mutant: the counts are reset only when the summary was sent
counts_after_flush_if_sent(counts, success) == IF success THEN ZeroCounts ELSE counts

\* the counts after the summary has been sent, whatever send_to_cloud returned
counts_after_flush(counts, success) == ZeroCounts

\* send_to_cloud(security_summary, SECURITY_FEEDS): one feed per step; after the
\* last feed the counts are reset and the summary timer is set
DL_SecPublish(accepted) ==
  /\ dpc = "sec_pub"
  /\ mqtt_connected \/ accepted
  /\   LET sent == send_to_adafruit_io(mqtt_connected, accepted)
       IN  /\ pub' = [idx |-> pub.idx + 1, success |-> pub.success /\ sent]
           /\ IF pub.idx + 1 = 3
                THEN /\ security_counts' = counts_after_flush(security_counts,
                                                              pub.success /\ sent)
                     /\ detected' = ZeroCounts
                     /\ timers' = [timers EXCEPT !.security_send = current_time]
                     /\ dpc' = "flush"
                ELSE UNCHANGED <<security_counts, detected, timers, dpc>>
  /\ tick' = [tick EXCEPT !.pubs = @ + 1]
  /\ UNCHANGED <<unsent, appVars, mqtt_connected, inbox, chanVars, ctlVars, alertVars, now, ticks, current_time,
                 last_fsync, secVars, dbVars, syncVars, faults>>

\* the periodic fsync, then time.sleep(security_check_interval): the next tick
\* starts d seconds after this one
DL_FlushSleep(d) ==
  /\ dpc = "flush"
  /\ last_fsync' = IF current_time - last_fsync > flushing_interval
                     THEN current_time ELSE last_fsync
  /\ now' = now + d
  /\ dpc' = "top"
  /\ current_time' = 0
  /\ pub' = NoPublish
  /\ tick' = FreshTick
  /\ alert_req' = NoRequest
  /\ UNCHANGED <<unsent, appVars, mqtt_connected, inbox, chanVars, ctlVars,
                 last_alert_time, sent_at, ticks, timers, security_counts,
                 detected, secVars, dbVars, syncVars, faults>>

\* mutant: a tick that raised ends the loop
DL_Backoff_exits ==
  /\ dpc = "backoff"
  /\ now' = now + BackoffSleep
  /\ dpc' = "done"
  /\ current_time' = 0
  /\ pub' = NoPublish
  /\ tick' = FreshTick
  /\ alert_req' = NoRequest
  /\ UNCHANGED <<unsent, appVars, mqtt_connected, inbox, chanVars, ctlVars,
                 last_alert_time, sent_at, ticks, timers, security_counts,
                 last_fsync, detected, secVars, dbVars, syncVars, faults>>

\* except Exception: log, time.sleep(5)
DL_Backoff ==
  /\ dpc = "backoff"
  /\ now' = now + BackoffSleep
  /\ dpc' = "top"
  /\ current_time' = 0
  /\ pub' = NoPublish
  /\ tick' = FreshTick
  /\ alert_req' = NoRequest
  /\ UNCHANGED <<unsent, appVars, mqtt_connected, inbox, chanVars, ctlVars,
                 last_alert_time, sent_at, ticks, timers, security_counts,
                 last_fsync, detected, secVars, dbVars, syncVars, faults>>

\* The inputs of the data-collection loop: outcomes of the log-file write and
\* of the local inserts, the transport's answer to a publish, the sensor
\* readings and the seconds from one tick to the next.
AllInputs ==
  [log_ok |-> BOOLEAN, db_ok |-> BOOLEAN, accepted |-> BOOLEAN, pir |-> BOOLEAN,
   smoke |-> BOOLEAN, raises |-> {"none", "sensor", "log"}, smtp_ok |-> BOOLEAN,
   elapsed |-> TickElapsed]

DataLoop(I) ==
  \/ DL_Top
  \/ \E log_ok \in I.log_ok, db_ok \in I.db_ok : DL_CollectEnv(log_ok, db_ok)
  \/ \E accepted \in I.accepted : DL_EnvPublish(accepted)
  \/ DL_ModeCheck
  \/ \E pir \in I.pir, smoke \in I.smoke, raises \in I.raises, smtp_ok \in I.smtp_ok :
       DL_SecurityPoll(pir, smoke, raises, smtp_ok)
  \/ \E db_ok \in I.db_ok : DL_Summary(db_ok)
  \/ \E accepted \in I.accepted : DL_SecPublish(accepted)
  \/ \E d \in I.elapsed : DL_FlushSleep(d)
  \/ DL_Backoff

(***************************************************************************)
(* DB_Manager.synchronize_to_cloud and the sync loop.                      *)
(*                                                                         *)
(* Both connections run one transaction each: the remote inserts and the   *)
(* local UPDATEs stay pending until cloud_conn.commit() and                *)
(* local_conn.commit().  An exception leaves the try block before either   *)
(* commit, and the pending work of both connections is rolled back when    *)
(* they are dropped.  sy.env and sy.sec record how far each kind got:      *)
(* "idle" (not reached), "empty" (nothing unsynced), "written" (remote     *)
(* insert and local UPDATE pending) or "failed"; sy.raised records the     *)
(* statement that raised, and sy.pending_env and sy.pending_sec the rows   *)
(* that were unsynced when the iteration decided to sync (history).        *)
(***************************************************************************)
\* SELECT id ... WHERE synced = 0: the ids, in insertion order
Unsynced(table) ==
  SelectSeq([i \in 1..Len(table) |-> i], LAMBDA i : table[i].synced = 0)

\* mutant: the last fetched row is left out of the batch
EnvBatch_short(table, ids) == [n \in 1..(Len(ids) - 1) |-> table[ids[n]].ts]

\* the rows handed to execute_batch: the columns without id and synced
EnvBatch(table, ids) == [n \in 1..Len(ids) |-> table[ids[n]].ts]
\* mutant: the security batch handed to execute_batch is empty
SecBatch_empty(table, ids) == <<>>

SecBatch(table, ids) ==
  [n \in 1..Len(ids) |->
     [ts |-> table[ids[n]].ts, motion_count |-> table[ids[n]].motion_count,
      smoke_count |-> table[ids[n]].smoke_count,
      sound_count |-> table[ids[n]].sound_count]]

Range(seq) == {seq[n] : n \in 1..Len(seq)}

\* mutant: the flag is written for every row, 1 for the ids and 0 for the rest
mark_synced_rewrite(table, ids) ==
  [i \in 1..Len(table) |-> [table[i] EXCEPT !.synced = IF i \in Range(ids) THEN 1 ELSE 0]]

\* mutant: the update flips the flag of the rows it names
mark_synced_toggle(table, ids) ==
  [i \in 1..Len(table) |->
     IF i \in Range(ids) THEN [table[i] EXCEPT !.synced = 1 - @] ELSE table[i]]

\* mutant: the update names no id and marks every row of the table
mark_synced_every(table, ids) ==
  [i \in 1..Len(table) |-> [table[i] EXCEPT !.synced = 1]]

\* UPDATE ... SET synced = 1 WHERE id IN (ids)
mark_synced(table, ids) ==
  [i \in 1..Len(table) |->
     IF i \in Range(ids) THEN [table[i] EXCEPT !.synced = 1] ELSE table[i]]

\* mutant: the sync loop does not read the stop flag
SL_Top_unchecked ==
  /\ spc = "top"
  /\ spc' = "check"
  /\ UNCHANGED <<appVars, mqtt_connected, inbox, chanVars, ctlVars, alertVars, now, dlVars, secVars, dbVars, sy,
                 faults>>

\* while self.running: ... time.sleep(5)
SL_Top ==
  /\ spc = "top"
  /\ spc' = IF running THEN "check" ELSE "done"
  /\ UNCHANGED <<appVars, mqtt_connected, inbox, chanVars, ctlVars, alertVars, now, dlVars, secVars, dbVars, sy,
                 faults>>

\* mutant: the sync runs whatever is_connected() returns
after_check_always(connected) == "select_env"

\* the position after the test of is_connected()
after_check(connected) == IF connected THEN "select_env" ELSE "sleep"

\* if self.mqtt_agent.is_connected(): ... else: skip
SL_Check ==
  /\ spc = "check"
  /\ sy' = [IdleSync EXCEPT
              !.observed = mqtt_connected,
              !.pending_env = IF mqtt_connected THEN Unsynced(local_env) ELSE <<>>,
              !.pending_sec = IF mqtt_connected THEN Unsynced(local_sec) ELSE <<>>]
  /\ spc' = after_check(mqtt_connected)
  /\ UNCHANGED <<appVars, mqtt_connected, inbox, chanVars, ctlVars, alertVars, now, dlVars, secVars, dbVars,
                 faults>>

\* an exception inside synchronize_to_cloud: the except clause logs it and the
\* method returns synced_count as it stands
SyncRaises(at) ==
  /\ faults < MaxFaults
  /\ faults' = faults + 1
  /\ sy' = [sy EXCEPT !.raised = at,
                      !.env = IF at = "env" THEN "failed" ELSE @,
                      !.sec = IF at = "sec" THEN "failed" ELSE @]
  /\ spc' = "sleep"

\* sqlite3.connect, psycopg2.connect, SELECT ... FROM env_data WHERE synced = 0
SY_SelectEnv ==
  /\ spc = "select_env"
  /\ \/ /\ sy' = [sy EXCEPT !.env_records = Unsynced(local_env)]
        /\ spc' = "write_env"
        /\ UNCHANGED faults
     \/ SyncRaises("select_env")
  /\ UNCHANGED <<appVars, mqtt_connected, inbox, chanVars, ctlVars, alertVars, now, dlVars, secVars, dbVars>>

\* if env_records: execute_batch(...); UPDATE env_data ...; synced_count += len
SY_WriteEnv ==
  /\ spc = "write_env"
  /\ IF sy.env_records = <<>>
       THEN /\ sy' = [sy EXCEPT !.env = "empty"]
            /\ spc' = "select_sec"
            /\ UNCHANGED faults
       ELSE \/ /\ sy' = [sy EXCEPT !.env = "written",
                                   !.synced_count = @ + Len(sy.env_records)]
               /\ spc' = "select_sec"
               /\ UNCHANGED faults
            \/ SyncRaises("env")
  /\ UNCHANGED <<appVars, mqtt_connected, inbox, chanVars, ctlVars, alertVars, now, dlVars, secVars, dbVars>>

\* SELECT ... FROM security_data WHERE synced = 0
SY_SelectSec ==
  /\ spc = "select_sec"
  /\ \/ /\ sy' = [sy EXCEPT !.security_records = Unsynced(local_sec)]
        /\ spc' = "write_sec"
        /\ UNCHANGED faults
     \/ SyncRaises("select_sec")
  /\ UNCHANGED <<appVars, mqtt_connected, inbox, chanVars, ctlVars, alertVars, now, dlVars, secVars, dbVars>>

\* if security_records: execute_batch(...); UPDATE security_data ...
SY_WriteSec ==
  /\ spc = "write_sec"
  /\ IF sy.security_records = <<>>
       THEN /\ sy' = [sy EXCEPT !.sec = "empty"]
            /\ spc' = "cloud_commit"
            /\ UNCHANGED faults
       ELSE \/ /\ sy' = [sy EXCEPT !.sec = "written",
                                   !.synced_count = @ + Len(sy.security_records)]
               /\ spc' = "cloud_commit"
               /\ UNCHANGED faults
            \/ SyncRaises("sec")
  /\ UNCHANGED <<appVars, mqtt_connected, inbox, chanVars, ctlVars, alertVars, now, dlVars, secVars, dbVars>>

\* cloud_conn.commit(): the pending remote inserts become durable
SY_CloudCommit ==
  /\ spc = "cloud_commit"
  /\ \/ /\ cloud_env' = IF sy.env = "written"
                          THEN cloud_env \o EnvBatch(local_env, sy.env_records)
                          ELSE cloud_env
        /\ cloud_sec' = IF sy.sec = "written"
                          THEN cloud_sec \o SecBatch(local_sec, sy.security_records)
                          ELSE cloud_sec
        /\ sy' = [sy EXCEPT !.cloud_committed = TRUE]
        /\ spc' = "local_commit"
        /\ UNCHANGED faults
     \/ /\ SyncRaises("cloud_commit")
        /\ UNCHANGED <<cloud_env, cloud_sec>>
  /\ UNCHANGED <<appVars, mqtt_connected, inbox, chanVars, ctlVars, alertVars, now, dlVars, secVars, local_env,
                 local_sec>>

\* local_conn.commit(): the pending UPDATEs become durable; then the method
\* closes its connections and returns synced_count
SY_LocalCommit ==
  /\ spc = "local_commit"
  /\ \/ /\ local_env' = IF sy.env = "written"
                          THEN mark_synced(local_env, sy.env_records) ELSE local_env
        /\ local_sec' = IF sy.sec = "written"
                          THEN mark_synced(local_sec, sy.security_records) ELSE local_sec
        /\ sy' = [sy EXCEPT !.local_committed = TRUE]
        /\ spc' = "sleep"
        /\ UNCHANGED faults
     \/ /\ SyncRaises("local_commit")
        /\ UNCHANGED <<local_env, local_sec>>
  /\ UNCHANGED <<appVars, mqtt_connected, inbox, chanVars, ctlVars, alertVars, now, dlVars, secVars, cloud_env,
                 cloud_sec>>

\* time.sleep(SYNC_INTERVAL_SEC)
SL_Sleep ==
  /\ spc = "sleep"
  /\ spc' = "top"
  /\ sy' = IdleSync
  /\ UNCHANGED <<appVars, mqtt_connected, inbox, chanVars, ctlVars, alertVars, now, dlVars, secVars, dbVars,
                 faults>>

SyncLoop ==
  \/ SL_Top
  \/ SL_Check
  \/ SY_SelectEnv
  \/ SY_WriteEnv
  \/ SY_SelectSec
  \/ SY_WriteSec
  \/ SY_CloudCommit
  \/ SY_LocalCommit
  \/ SL_Sleep

(***************************************************************************)
(* Process lifecycle.                                                      *)
(***************************************************************************)
\* start(): KeyboardInterrupt, finally: self.running = False
Shutdown ==
  /\ running
  /\ running' = FALSE
  /\ UNCHANGED <<system_mode, mqtt_connected, inbox, chanVars, ctlVars, alertVars, now, dlVars, secVars, dbVars,
                 syncVars, faults>>

\* start(): the joins are bounded and the sync thread is a daemon thread: once
\* the data-collection thread has returned the process ends, and the sync loop
\* ends with it wherever it stands, its open transactions rolled back
ProcessExit ==
  /\ ~running
  /\ dpc = "done"
  /\ spc \notin {"done", "killed"}
  /\ spc' = "killed"
  /\ sy' = IdleSync
  /\ UNCHANGED <<appVars, mqtt_connected, inbox, chanVars, ctlVars, alertVars, now,
                 dlVars, secVars, dbVars, faults>>

\* The process dies at any point and is started again: everything in memory
\* and every open transaction is lost, the committed rows of both stores stay.
CrashRestart ==
  /\ faults < MaxFaults
  /\ faults' = faults + 1
  /\ running' = TRUE
  /\ system_mode' = Home
  /\ mqtt_connected' = FALSE
  /\ inbox' = NoMessage
  /\ dpc' = "top"
  /\ current_time' = 0
  /\ timers' = [env_check |-> 0, security_check |-> 0, security_send |-> now]
  /\ security_counts' = ZeroCounts
  /\ last_fsync' = now
  /\ pub' = NoPublish
  /\ last_capture_time' = 0
  /\ motion_log' = NoMotion
  /\ spc' = "top"
  /\ sy' = IdleSync
  /\ tick' = FreshTick
  /\ detected' = ZeroCounts
  /\ subscribed_feeds' = ControlFeeds
  /\ broker_subs' = {}
  /\ ever_passed' = ControlFeeds
  /\ resubscribed' = {}
  /\ call' = NoCall
  /\ client' = StartedClient
  /\ echo_due' = FALSE
  /\ devices' = AllOff
  /\ hpc' = "idle"
  /\ hist' = NoHandling
  /\ last_alert_time' = NoAlerts
  /\ sent_at' = NoAlerts
  /\ alert_req' = NoRequest
  /\ in_capture' = NoCapture
  /\ UNCHANGED <<now, ticks, camera_enabled, dbVars, unsent>>

\* messages the broker may deliver: each control feed with valid and invalid
\* payloads, and a feed that is no control feed, which a client has subscribed
ChannelMessages ==
  { [feed |-> CONTROL_FEEDS.mode, payload |-> <<"a", "w", "a", "y">>],
    [feed |-> CONTROL_FEEDS.mode, payload |-> Off],
    [feed |-> CONTROL_FEEDS.camera, payload |-> TAKE_PHOTO],
    [feed |-> CONTROL_FEEDS.camera, payload |-> lower(TAKE_PHOTO)],
    [feed |-> CONTROL_FEEDS.camera, payload |-> One],
    [feed |-> CONTROL_FEEDS.camera, payload |-> PHOTO_TAKEN],
    [feed |-> CONTROL_FEEDS.camera, payload |-> On],
    [feed |-> CONTROL_FEEDS.light, payload |-> <<"O", "N">>],
    [feed |-> CONTROL_FEEDS.light, payload |-> Zero],
    [feed |-> CONTROL_FEEDS.light, payload |-> <<" ", "o", "n">>],
    [feed |-> CONTROL_FEEDS.fan, payload |-> One],
    [feed |-> CONTROL_FEEDS.fan, payload |-> <<"O", "f", "F">>],
    [feed |-> CONTROL_FEEDS.fan, payload |-> TAKE_PHOTO],
    [feed |-> CONTROL_FEEDS.buzzer, payload |-> On],
    [feed |-> CONTROL_FEEDS.buzzer, payload |-> <<"A", "w", "a", "y">>],
    [feed |-> "other-feed", payload |-> On],
    [feed |-> "other-feed", payload |-> TAKE_PHOTO],
    [feed |-> "other-feed", payload |-> <<"A", "w", "a", "y">>] }

\* feed lists a client passes to subscribe_to_feeds
SubscribeInputs == {{"other-feed"}, {"log-feed", CONTROL_FEEDS.light}}

\* the network loop: connection callbacks and the mode commands it delivers
Network(payloads) ==
  \/ \E rc \in {0, 5} : on_mqtt_connect(rc)
  \/ on_mqtt_disconnect
  \/ \E p \in payloads : Deliver(CONTROL_FEEDS.mode, p)
  \/ handle_incoming_mqtt_command

\* the other control feeds, the rest of the handler and the other callers
\* of the channel client
Channel ==
  \/ \E m \in ChannelMessages : Deliver(m.feed, m.payload)
  \/ \E smtp_ok \in BOOLEAN : H_ManualCapture(smtp_ok)
  \/ \E outcome \in PublishOutcomes : H_Ack(outcome)
  \/ \E feeds \in SubscribeInputs : subscribe_to_feeds(feeds)
  \/ \E outcome \in PublishOutcomes : CallPublish(outcome)

\* The whole program: the three threads and the process lifecycle.
Next ==
  \/ DataLoop(AllInputs)
  \/ SyncLoop
  \/ Network(ModePayloads)
  \/ Channel
  \/ Shutdown
  \/ ProcessExit
  \/ CrashRestart

Spec == Init /\ [][Next]_vars

(***************************************************************************)
(* The slices of the program that are model-checked.  The sync loop reads  *)
(* and writes only the stores, its own locals and the connected flag, and  *)
(* the data-collection loop never reads the synced flags or the remote     *)
(* store, so each slice keeps the threads that can change what its claims  *)
(* are about.                                                              *)
(***************************************************************************)
\* The control plane: network loop, command handler, lifecycle.
NextControl ==
  \/ Network(ModePayloads)
  \/ Shutdown
  \/ CrashRestart

ControlSpec == Boot({FALSE}) /\ [][NextControl]_vars

\* The channel client and the command handler under every kind of message.
NextChannel ==
  \/ \E rc \in {0, 5} : on_mqtt_connect(rc)
  \/ on_mqtt_disconnect
  \/ \E feeds \in SubscribeInputs : subscribe_to_feeds(feeds)
  \/ \E outcome \in PublishOutcomes : CallPublish(outcome)
  \/ \E m \in ChannelMessages : Deliver(m.feed, m.payload)
  \/ handle_incoming_mqtt_command
  \/ \E smtp_ok \in BOOLEAN : H_ManualCapture(smtp_ok)
  \/ \E outcome \in PublishOutcomes : H_Ack(outcome)

ChannelSpec == Boot({FALSE}) /\ [][NextChannel]_vars

\* The data-collection loop under every input, the mode being switched by
\* commands.
SwitchPayloads == {<<"a", "w", "a", "y">>, <<"h", "O", "m", "E">>}

\* (the e-mail transport is not configured, as with the default configuration,
\* so every e-mail fails)
DataInputs == [AllInputs EXCEPT !.smtp_ok = {FALSE}]

NextData ==
  \/ DataLoop(DataInputs)
  \/ Network(SwitchPayloads)

DataSpec == Init /\ [][NextData]_vars

\* DB_Manager and the sync loop under any sequence of calls of the two
\* inserts: the data-collection loop is replaced by its calls into DB_Manager,
\* made at any moment and in any order.
SummaryInputs == { security_summary([motion |-> 1, smoke |-> 2, sound |-> 0]) }

NextStore ==
  \/ \E ok \in BOOLEAN : CallInsertEnv(ok)
  \/ \E data \in SummaryInputs, ok \in BOOLEAN : CallInsertSummary(data, ok)
  \/ SyncLoop
  \/ on_mqtt_connect(0)
  \/ on_mqtt_disconnect
  \/ CrashRestart

StoreSpec == Boot({FALSE}) /\ [][NextStore]_vars

\* End to end: the data-collection loop inserting a telemetry row per tick
\* (one env interval per tick; no command arrives, so the mode stays Home and
\* the security branch of the tick is never entered), the sync loop draining
\* the rows, the connection coming and going.
FlowInputs ==
  [log_ok |-> {TRUE}, db_ok |-> {TRUE}, accepted |-> BOOLEAN, elapsed |-> {env_interval}]

NextFlow ==
  \/ DL_Top
  \/ \E log_ok \in FlowInputs.log_ok, db_ok \in FlowInputs.db_ok :
       DL_CollectEnv(log_ok, db_ok)
  \/ \E accepted \in FlowInputs.accepted : DL_EnvPublish(accepted)
  \/ DL_ModeCheck
  \/ \E d \in FlowInputs.elapsed : DL_FlushSleep(d)
  \/ SyncLoop
  \/ on_mqtt_connect(0)
  \/ on_mqtt_disconnect

FlowSpec == Boot({FALSE}) /\ [][NextFlow]_vars

\* The sync loop is a thread of its own and is always scheduled again.
FairFlowSpec == FlowSpec /\ WF_vars(SyncLoop)

\* The security path: the camera enabled, the mode set to Away by a command,
\* manual captures requested at any moment, and ticks that follow each other
\* inside and outside both cooldown windows.
SecurityPath(I) ==
  \/ DL_Top
  \/ \E log_ok \in I.log_ok, db_ok \in I.db_ok : DL_CollectEnv(log_ok, db_ok)
  \/ \E accepted \in I.accepted : DL_EnvPublish(accepted)
  \/ DL_ModeCheck
  \/ \E pir \in I.pir, smoke \in I.smoke, raises \in I.raises, smtp_ok \in I.smtp_ok :
       DL_SecurityPoll(pir, smoke, raises, smtp_ok)
  \/ \E db_ok \in I.db_ok : DL_Summary(db_ok)
  \/ \E accepted \in I.accepted : DL_SecPublish(accepted)
  \/ \E d \in I.elapsed : DL_FlushSleep(d)
  \/ on_mqtt_connect(0)
  \/ Deliver(CONTROL_FEEDS.mode, <<"a", "w", "a", "y">>)
  \/ Deliver(CONTROL_FEEDS.camera, One)
  \/ handle_incoming_mqtt_command
  \/ \E smtp_ok \in I.smtp_ok : H_ManualCapture(smtp_ok)
  \/ H_Ack("accepted")

\* The alerts: smoke alerts and manual-capture alerts under every outcome of
\* the e-mail transport (the PIR sensor stays low).
AlertInputs ==
  [log_ok |-> {TRUE}, db_ok |-> {TRUE}, accepted |-> {TRUE}, pir |-> {FALSE},
   smoke |-> BOOLEAN, raises |-> {"none"}, smtp_ok |-> BOOLEAN,
   elapsed |-> {security_check_interval, ALERT_COOLDOWN}]

AlertSpec == Boot({TRUE}) /\ [][SecurityPath(AlertInputs)]_vars

\* The captures: every reading of the PIR sensor (no smoke; the e-mail
\* transport is not configured, so every e-mail fails).
CaptureInputs ==
  [log_ok |-> {TRUE}, db_ok |-> {TRUE}, accepted |-> {TRUE}, pir |-> BOOLEAN,
   smoke |-> {FALSE}, raises |-> {"none"}, smtp_ok |-> {FALSE},
   elapsed |-> {security_check_interval, ALERT_COOLDOWN}]

CaptureSpec == Boot({TRUE}) /\ [][SecurityPath(CaptureInputs)]_vars

\* Smoke and motion together: every reading of the two sensors on a poll,
\* the e-mail transport working.
SmokeInputs ==
  [log_ok |-> {TRUE}, db_ok |-> {TRUE}, accepted |-> {TRUE}, pir |-> BOOLEAN,
   smoke |-> BOOLEAN, raises |-> {"none"}, smtp_ok |-> {TRUE},
   elapsed |-> {security_check_interval, security_send_interval}]

SmokeSpec == Boot({TRUE}) /\ [][SecurityPath(SmokeInputs)]_vars

\* The two callers of capture_image, each capture split at the entry and
\* the return of capture_image: the polls of the data-collection loop with
\* every reading of the PIR sensor, and the capture commands.
OverlapInputs ==
  [log_ok |-> {TRUE}, db_ok |-> {TRUE}, accepted |-> {TRUE}, pir |-> BOOLEAN,
   smoke |-> {FALSE}, smtp_ok |-> {FALSE},
   elapsed |-> {security_check_interval, security_send_interval}]

NextOverlap ==
  \/ DL_Top
  \/ \E log_ok \in OverlapInputs.log_ok, db_ok \in OverlapInputs.db_ok :
       DL_CollectEnv(log_ok, db_ok)
  \/ \E accepted \in OverlapInputs.accepted : DL_EnvPublish(accepted)
  \/ DL_ModeCheck
  \/ \E pir \in OverlapInputs.pir, smoke \in OverlapInputs.smoke,
        smtp_ok \in OverlapInputs.smtp_ok : QuietPoll(pir, smoke, smtp_ok)
  \/ DL_CaptureBegin
  \/ \E smoke \in OverlapInputs.smoke, smtp_ok \in OverlapInputs.smtp_ok :
       DL_CaptureEnd(smoke, smtp_ok)
  \/ \E db_ok \in OverlapInputs.db_ok : DL_Summary(db_ok)
  \/ \E accepted \in OverlapInputs.accepted : DL_SecPublish(accepted)
  \/ \E d \in OverlapInputs.elapsed : DL_FlushSleep(d)
  \/ on_mqtt_connect(0)
  \/ Deliver(CONTROL_FEEDS.mode, <<"a", "w", "a", "y">>)
  \/ Deliver(CONTROL_FEEDS.camera, One)
  \/ handle_incoming_mqtt_command
  \/ H_CaptureBegin
  \/ \E smtp_ok \in OverlapInputs.smtp_ok : H_CaptureEnd(smtp_ok)
  \/ H_Ack("accepted")

OverlapSpec == Boot({TRUE}) /\ [][NextOverlap]_vars

\* The camera-trigger feed: capture commands, other payloads and the
\* acknowledgment coming back, with a command of a device in between.
EchoMessages ==
  { [feed |-> CONTROL_FEEDS.camera, payload |-> TAKE_PHOTO],
    [feed |-> CONTROL_FEEDS.camera, payload |-> One],
    [feed |-> CONTROL_FEEDS.camera, payload |-> PHOTO_TAKEN],
    [feed |-> CONTROL_FEEDS.camera, payload |-> lower(PHOTO_TAKEN)],
    [feed |-> CONTROL_FEEDS.light, payload |-> On] }

NextEcho ==
  \/ \E rc \in {0, 5} : on_mqtt_connect(rc)
  \/ on_mqtt_disconnect
  \/ \E m \in EchoMessages : Deliver(m.feed, m.payload)
  \/ handle_incoming_mqtt_command
  \/ \E smtp_ok \in BOOLEAN : H_ManualCapture(smtp_ok)
  \/ \E outcome \in PublishOutcomes : H_Ack(outcome)

EchoSpec == Boot({TRUE}) /\ [][NextEcho]_vars

\* The two loops up to shutdown: ticks of the data-collection loop that raise
\* (the log-file write), statements of the sync that raise, the client
\* connecting, and the stop flag being cleared at any moment.  No command
\* arrives, so the mode stays Home.  Each loop is a thread that is always
\* scheduled again.
LoopInputs ==
  [log_ok |-> BOOLEAN, db_ok |-> {TRUE}, accepted |-> {TRUE},
   elapsed |-> {security_check_interval}]

DataLoopSteps ==
  \/ DL_Top
  \/ \E log_ok \in LoopInputs.log_ok, db_ok \in LoopInputs.db_ok :
       DL_CollectEnv(log_ok, db_ok)
  \/ \E accepted \in LoopInputs.accepted : DL_EnvPublish(accepted)
  \/ DL_ModeCheck
  \/ \E d \in LoopInputs.elapsed : DL_FlushSleep(d)
  \/ DL_Backoff

NextLoop ==
  \/ DataLoopSteps
  \/ SyncLoop
  \/ on_mqtt_connect(0)
  \/ Shutdown
  \/ ProcessExit

LoopSpec == Boot({FALSE}) /\ [][NextLoop]_vars

FairLoopSpec == LoopSpec /\ WF_vars(DataLoopSteps) /\ WF_vars(SyncLoop)

\* The constructor from the return of setup_mqtt on, for each outcome of
\* setup_mqtt: no feed is stored yet, no command handler is set.
Startup(outcomes) == \E o \in outcomes : BootWith({FALSE}, setup_mqtt(o), {})

\* start() runs the loops once the constructor has returned
Started == client.mpc = "returned"

\* Startup of the channel: the main thread in setup_control_subscribers
\* against the callbacks of the network loop, then the mode commands that
\* the subscriptions let in.
NextStartup ==
  \/ SetupControlSubscribers
  \/ OnConnectSteps
  \/ on_mqtt_disconnect
  \/ \E p \in SwitchPayloads : Deliver(CONTROL_FEEDS.mode, p)
  \/ handle_incoming_mqtt_command

StartupSpec == Startup(SetupOutcomes) /\ [][NextStartup]_vars

\* The program from its construction on, for each outcome of setup_mqtt:
\* the two loops in Home mode, the connection callbacks and a client
\* publishing.
NextDegraded ==
  \/ SetupControlSubscribers
  \/ on_mqtt_connect(0)
  \/ on_mqtt_disconnect
  \/ Started /\ DataLoopSteps
  \/ Started /\ SyncLoop
  \/ \E outcome \in PublishOutcomes : CallPublish(outcome)

DegradedSpec == Startup(SetupOutcomes) /\ [][NextDegraded]_vars

\* The telemetry table under inserts that succeed and syncs that may raise,
\* the sync loop being a thread that is always scheduled again.
NextLateRow ==
  \/ CallInsertEnv(TRUE)
  \/ SyncLoop
  \/ on_mqtt_connect(0)
  \/ on_mqtt_disconnect

LateRowSpec == Boot({FALSE}) /\ [][NextLateRow]_vars /\ WF_vars(SyncLoop)

(***************************************************************************)
(* Claims.                                                                 *)
(***************************************************************************)
Normalize(p) == title(strip(p))

\* C1: The mode starts as Home and is Home or Away in every state; handling a
\* message of the system-mode feed with payload p sets the mode to
\* title(strip(p)) when that is Home or Away and leaves it as it was
\* otherwise.  The normal forms of the payloads are also given literally.
C1_ModeContract ==
  /\ system_mode = Home
  /\ Normalize(<<" ", "A", "W", "A", "Y", " ">>) = Away
  /\ Normalize(<<"h", "O", "m", "E">>) = Home
  /\ Normalize(<<"a", "w", "a", "y">>) = Away
  /\ Normalize(<<"A", "w", "a", "y", " ", "H", "o", "m", "e">>)
       = <<"A", "w", "a", "y", " ", "H", "o", "m", "e">>
  /\ Normalize(<<"H", "o", "m", "e", "1">>) = <<"H", "o", "m", "e", "1">>
  /\ Normalize(<<" ", "A", " ", "w", "a", "y">>) = <<"A", " ", "W", "a", "y">>
  /\ Normalize(<<"o", "f", "f">>) = <<"O", "f", "f">>
  /\ Normalize(<<" ">>) = <<>>
  /\ [](system_mode \in {Home, Away})
  /\ [][(inbox.feed = CONTROL_FEEDS.mode /\ inbox' = NoMessage /\ faults' = faults)
          => system_mode' = IF Normalize(inbox.payload) \in {Home, Away}
                              THEN Normalize(inbox.payload) ELSE system_mode]_vars

\* the mode is Away (a payload was accepted) and a payload that does not
\* normalise to a mode is about to be handled
C1_Witness ==
  /\ system_mode = Away
  /\ inbox.feed = CONTROL_FEEDS.mode
  /\ Normalize(inbox.payload) \notin {Home, Away}

\* C2: A security sample is taken, and a count, the security-poll timer or the
\* capture cooldown changed, only in a tick that read the mode as Away; from
\* the moment a tick has read Home until it ends, no sample is taken and the
\* counts stay as they were; and every tick that reads the mode has evaluated
\* the env-poll gate before.
C2_SecurityOnlyInAwayTick ==
  [][ /\ (tick'.sampled /\ ~tick.sampled) => tick.mode_read = "Away"
      /\ (\/ security_counts' # security_counts
          \/ timers'.security_check # timers.security_check
          \/ last_capture_time' # last_capture_time) => tick.mode_read = "Away"
      /\ tick.mode_read = "Home"
           => security_counts' = security_counts /\ ~tick'.sampled /\ dpc' \in {"flush", "top"}
      /\ tick'.mode_read # "none" => tick'.env_eval ]_vars

\* a tick that read Home ends with detections still counted and no sample taken
C2_Witness ==
  /\ dpc = "flush"
  /\ tick.mode_read = "Home"
  /\ tick.env_eval
  /\ ~tick.sampled
  /\ AnyCount(security_counts)

\* C8: When the summary gate has fired with a count above zero, all three
\* counts are zero at the end of the tick, whatever the publishes returned.
C8_FlushResetsCounts ==
  (dpc = "flush" /\ tick.summary = "flushed") => security_counts = ZeroCounts

\* a flushed tick ends after a publish of the summary failed
C8_Witness ==
  /\ dpc = "flush"
  /\ tick.summary = "flushed"
  /\ ~pub.success
  /\ security_counts = ZeroCounts

\* C9: The step of the summary gate, taken with the gate open and all three
\* counts zero, inserts no row, publishes nothing and goes to the end of the
\* tick having changed only timers['security_send'].
C9_EmptySummaryIsNoop ==
  [][ (/\ dpc = "summary"
       /\ dpc' # "summary"
       /\ GateOpen(current_time, timers.security_send, security_send_interval)
       /\ security_counts = ZeroCounts)
        => /\ local_sec' = local_sec
           /\ local_env' = local_env
           /\ tick'.pubs = tick.pubs
           /\ pub' = pub
           /\ dpc' = "flush"
           /\ security_counts' = security_counts
           /\ timers' = [timers EXCEPT !.security_send = current_time] ]_vars

\* the gate has fired with all counts zero, in a tick that polled the sensors
C9_Witness ==
  /\ dpc = "flush"
  /\ tick.summary = "noop"
  /\ tick.sampled
  /\ timers.security_send = current_time

\* C10: Each count equals the number of polls since the last flush (or the
\* start of the loop) whose sample reported that kind; one step raises a count
\* by at most one; and a row inserted into security_data carries the counts.
C10_CountsMatchPolls ==
  /\ [](\A k \in Kinds : security_counts[k] = detected[k])
  /\ [][\A k \in Kinds : security_counts'[k] <= security_counts[k] + 1]_vars
  /\ [][Len(local_sec') > Len(local_sec)
          => LET row == local_sec'[Len(local_sec')]
             IN  /\ row.motion_count = detected.motion
                 /\ row.smoke_count = detected.smoke
                 /\ row.sound_count = detected.sound]_vars

\* a summary row holds two smoke detections and one motion detection
C10_Witness ==
  \E i \in 1..Len(local_sec) :
    /\ local_sec[i].smoke_count = 2
    /\ local_sec[i].motion_count = 1
    /\ local_sec[i].sound_count = 0

AllSynced(table, ids) == \A n \in 1..Len(ids) : table[ids[n]].synced = 1
NoneSynced(table, ids) == \A n \in 1..Len(ids) : table[ids[n]].synced = 0

\* synchronize_to_cloud has returned in an iteration that found the client
\* connected
SyncReturned == spc = "sleep" /\ sy.observed

\* C3: When a sync tick has ended, for each kind: if the kind's batch write
\* raised, none of the rows fetched for it is marked synced; if the kind's
\* batch write went through and no other statement than the other kind's
\* batch write raised, every row fetched for it is marked synced.
C3_BatchMarkedIffWritten ==
  SyncReturned =>
    /\ sy.env = "failed" => NoneSynced(local_env, sy.env_records)
    /\ sy.sec = "failed" => NoneSynced(local_sec, sy.security_records)
    /\ (sy.env = "written" /\ sy.raised \in {"none", "sec"})
         => AllSynced(local_env, sy.env_records)
    /\ (sy.sec = "written" /\ sy.raised = "none")
         => AllSynced(local_sec, sy.security_records)

\* C4: When a sync tick has ended in which the write of one kind raised, the
\* rows of the other kind that were unsynced when the tick began are marked
\* synced and are in the remote store, unless the other kind's own write or a
\* commit raised.
C4_KindsSyncIndependently ==
  SyncReturned =>
    /\ sy.raised = "env"
         => /\ AllSynced(local_sec, sy.pending_sec)
            /\ \A n \in 1..Len(sy.pending_sec) :
                 \E m \in 1..Len(cloud_sec) : cloud_sec[m].ts = local_sec[sy.pending_sec[n]].ts
    /\ sy.raised = "sec"
         => /\ AllSynced(local_env, sy.pending_env)
            /\ \A n \in 1..Len(sy.pending_env) :
                 \E m \in 1..Len(cloud_env) : cloud_env[m] = local_env[sy.pending_env[n]].ts

RowsKept(old, new) ==
  /\ Len(new) >= Len(old)
  /\ \A i \in 1..Len(old) :
       /\ old[i].synced = 1 => new[i].synced = 1
       /\ [new[i] EXCEPT !.synced = 0] = [old[i] EXCEPT !.synced = 0]
  /\ \A i \in (Len(old) + 1)..Len(new) : new[i].synced = 0

\* C5: In every step (insert, sync step, failed sync, crash) each local table
\* keeps its rows, a row whose synced flag is 1 keeps the flag, nothing else
\* of a row changes, and a new row has synced = 0.
C5_SyncedIsMonotonic ==
  [][RowsKept(local_env, local_env') /\ RowsKept(local_sec, local_sec')]_vars

\* after a failure (a failed sync or a crash) a table holds a synced row
\* followed by an unsynced one, and the sync loop is about to run again
C5_Witness ==
  /\ faults > 0
  /\ spc = "check"
  /\ \E i, j \in 1..Len(local_env) :
       i < j /\ local_env[i].synced = 1 /\ local_env[j].synced = 0
  /\ \E i \in 1..Len(local_sec) : local_sec[i].synced = 1

EnvSynced(i) == i <= Len(local_env) /\ local_env[i].synced = 1

\* C6: A telemetry row becomes synced only in a sync iteration that observed
\* the client connected and that fetched the row, and its data is then in the
\* remote store; and if the client is eventually connected for good, every
\* row that is in the local table is eventually synced.
C6_OfflineRowsDrain ==
  /\ [][\A i \in 1..Len(local_env) :
          (local_env[i].synced = 0 /\ local_env'[i].synced = 1)
            => /\ sy.observed
               /\ i \in Range(sy.env_records)
               /\ \E m \in 1..Len(cloud_env') : cloud_env'[m] = local_env[i].ts]_vars
  /\ (<>[]mqtt_connected)
       => \A i \in 1..MaxEnvRows : [](i <= Len(local_env) => <>EnvSynced(i))

\* a row whose send_to_cloud returned False has been synced
C6_Witness ==
  \E i \in unsent : EnvSynced(i) /\ \E m \in 1..Len(cloud_env) : cloud_env[m] = local_env[i].ts

SyncPositions ==
  {"select_env", "write_env", "select_sec", "write_sec", "cloud_commit", "local_commit"}

\* C7: A step of the sync loop in an iteration that observed the client
\* disconnected changes neither store and never enters synchronize_to_cloud;
\* and synchronize_to_cloud runs only in an iteration that observed it
\* connected.
C7_DisconnectedTickSkips ==
  /\ [][(spc' # spc /\ ~sy'.observed /\ faults' = faults)
          => /\ spc' \notin SyncPositions
             /\ sy'.env_records = <<>> /\ sy'.security_records = <<>>
             /\ UNCHANGED dbVars]_vars
  /\ [](spc \in SyncPositions => sy.observed)

\* an iteration has skipped the sync while an unsynced row was waiting
C7_Witness ==
  /\ spc = "sleep"
  /\ ~sy.observed
  /\ ~mqtt_connected
  /\ Unsynced(local_env) # <<>>
  /\ Unsynced(local_sec) # <<>>

HandlerNext ==
  \/ handle_incoming_mqtt_command
  \/ \E smtp_ok \in BOOLEAN : H_ManualCapture(smtp_ok)
  \/ \E outcome \in PublishOutcomes : H_Ack(outcome)

\* C11: The handling of one message makes at most one of a mode update
\* attempt, a manual capture and one device command, and acknowledges only a
\* capture; a message that is being handled can always be handled further;
\* while a message of the mode feed is handled no device status and no capture
\* state changes and nothing is published; and while a message of a feed that
\* is no control feed is handled the device statuses, the mode, the capture
\* and alert state stay as they were and the handler does nothing but finish.
C11_RoutingIsExclusive ==
  /\ [](hist.mode + hist.capture + hist.device <= 1)
  /\ [](hist.ack <= hist.capture /\ hist.handed <= hist.ack)
  /\ [](inbox # NoMessage => ENABLED HandlerNext)
  /\ [][inbox.feed = CONTROL_FEEDS.mode
          => /\ devices' = devices
             /\ UNCHANGED <<secVars, alertVars>>
             /\ hpc' = "idle"
             /\ hist'.capture = 0 /\ hist'.device = 0 /\ hist'.ack = 0
             /\ hist'.handed = 0]_vars
  /\ [][(inbox # NoMessage /\ inbox.feed \notin ControlFeeds)
          => /\ devices' = devices
             /\ system_mode' = system_mode
             /\ UNCHANGED <<secVars, alertVars>>
             /\ hpc' = "idle"
             /\ hist' \in {hist, [hist EXCEPT !.done = TRUE]}]_vars

\* a message of a feed that is no control feed has been handled while the
\* light was on and the mode Away, and both are as they were
C11_Witness ==
  /\ hist.done
  /\ hist.feed = "other-feed"
  /\ hist.payload = On
  /\ hist.device = 0
  /\ devices.light = "on"
  /\ devices.fan = "off"
  /\ system_mode = Away

IsCaptureCommand(p) == lower(p) = lower(TAKE_PHOTO) \/ p = One

\* C12: When a message of the camera-trigger feed has been handled, a payload
\* that is TAKE_PHOTO in any case, or 1, has made one manual capture and one
\* acknowledgment, handed to the transport, and any other payload none; the
\* acknowledgment is sent in a step after the capture has returned; and a
\* capture is made only for such a message and sets the capture timestamp.
C12_CaptureThenAck ==
  /\ []((hist.done /\ hist.feed = CONTROL_FEEDS.camera)
          => IF IsCaptureCommand(hist.payload)
               THEN hist.capture = 1 /\ hist.ack = 1 /\ hist.handed = 1
               ELSE hist.capture = 0 /\ hist.ack = 0 /\ hist.handed = 0)
  /\ [](hist.capture <= 1 /\ hist.ack <= 1)
  /\ [][hist'.ack > hist.ack => hist.capture = 1]_vars
  /\ [][hist'.capture > hist.capture
          => /\ hist.feed = CONTROL_FEEDS.camera
             /\ IsCaptureCommand(hist.payload)
             /\ hist.ack = 0
             /\ last_capture_time' = now]_vars

\* a lower-case take_photo has been handled: one capture, then one
\* acknowledgment
C12_Witness ==
  /\ hist.done
  /\ hist.feed = CONTROL_FEEDS.camera
  /\ hist.payload = lower(TAKE_PHOTO)
  /\ hist.capture = 1
  /\ hist.ack = 1
  /\ last_capture_time = now

IsOnCommand(p) == p \in {<<a, b>> : a \in {"o", "O"}, b \in {"n", "N"}} \cup {One}
IsOffCommand(p) ==
  p \in {<<a, b, c>> : a \in {"o", "O"}, b \in {"f", "F"}, c \in {"f", "F"}} \cup {Zero}

\* C13: The step that handles a message of the feed of a device sets the
\* status of that device to on for the payload on (in any case) or 1, to off
\* for off (in any case) or 0, and leaves it and reports the command rejected
\* for any other payload; the statuses of the other devices stay as they were.
C13_ActuatorCommands ==
  [][\A d \in Devices :
       (inbox.feed = CONTROL_FEEDS[d] /\ inbox' = NoMessage)
         => /\ devices' = [devices EXCEPT
                            ![d] = IF IsOnCommand(inbox.payload) THEN "on"
                                   ELSE IF IsOffCommand(inbox.payload) THEN "off" ELSE @]
            /\ hist'.device = 1
            /\ hist'.rejected = ~(IsOnCommand(inbox.payload) \/ IsOffCommand(inbox.payload))]_vars

\* a payload that is no command has been rejected on the light feed while the
\* light and the fan were on, and both still are
C13_Witness ==
  /\ hist.done
  /\ hist.feed = CONTROL_FEEDS.light
  /\ hist.rejected
  /\ devices.light = "on"
  /\ devices.fan = "on"
  /\ devices.buzzer = "off"

\* C14: A call of send_to_adafruit_io made while the client is not connected
\* returns False and does not call the transport; a call returns True only if
\* the client was connected and the transport accepted the message; no call
\* raises.
C14_PublishContract ==
  call.made =>
    /\ ~call.connected => (~call.ret /\ ~call.handed)
    /\ call.ret => (call.connected /\ call.handed /\ call.outcome = "accepted")
    /\ ~call.raised

\* the transport raised in a call made while connected, and the call
\* returned False
C14_Witness ==
  /\ call.made
  /\ call.connected
  /\ call.outcome = "raises"
  /\ call.handed
  /\ ~call.ret

\* C15: The remembered feeds never shrink and hold every feed ever passed to
\* subscribe_to_feeds; a step that connects the client subscribes every feed
\* ever passed, and while the client is connected every such feed is
\* subscribed at the broker; a disconnect leaves the client disconnected, and
\* only a connect with rc = 0 makes it connected.
C15_Resubscribe ==
  /\ [][subscribed_feeds \subseteq subscribed_feeds']_vars
  /\ [](ever_passed \subseteq subscribed_feeds)
  /\ [][(~mqtt_connected /\ mqtt_connected')
          => (ever_passed \subseteq resubscribed' /\ on_mqtt_connect(0))]_vars
  /\ [](mqtt_connected => ever_passed \subseteq broker_subs)
  /\ [][on_mqtt_disconnect => ~mqtt_connected']_vars

\* a connect has subscribed feeds that clients passed besides the control
\* feeds
C15_Witness ==
  /\ mqtt_connected
  /\ {"other-feed", "log-feed"} \subseteq resubscribed
  /\ ControlFeeds \subseteq resubscribed

(***************************************************************************)
(* C16: each interval gate of the data-collection loop (env-poll,          *)
(* security-poll, summary-report) fires in a tick iff the current time     *)
(* minus its own timer is at least its own interval, at most once per      *)
(* tick, and on firing sets only its own timer to the current time.  The   *)
(* statement is taken for the ticks that run to their sleep, with the      *)
(* security-poll gate read under its stated condition (Mode = Away) and    *)
(* the summary-report gate checked in every tick.  tick.t0 holds the       *)
(* timers the tick started with.                                           *)
(***************************************************************************)
TickCompleted == dpc = "flush"
EnvFired == tick.env_fired
PollFired == tick.sampled
SummaryFired == tick.summary # "none"
TimerAfter(fired, name) == IF fired THEN current_time ELSE tick.t0[name]

C16_GatesIndependent ==
  /\ ~GateOpen(0, 0, env_interval)
  /\ GateOpen(361, 0, env_interval)
  /\ TickCompleted =>
       /\ EnvFired <=> GateOpen(current_time, tick.t0.env_check, env_interval)
       /\ PollFired <=> /\ tick.mode_read = "Away"
                        /\ GateOpen(current_time, tick.t0.security_check,
                                    security_check_interval)
       /\ SummaryFired <=> GateOpen(current_time, tick.t0.security_send,
                                    security_send_interval)
       /\ timers = [env_check |-> TimerAfter(EnvFired, "env_check"),
                    security_check |-> TimerAfter(PollFired, "security_check"),
                    security_send |-> TimerAfter(SummaryFired, "security_send")]

\* What the code keeps of it: the env-poll gate in every tick, and
\* the other two gates in the ticks that read Mode = Away.
GatesWhenEvaluated ==
  TickCompleted =>
    /\ EnvFired <=> GateOpen(current_time, tick.t0.env_check, env_interval)
    /\ tick.mode_read = "Away" =>
         /\ PollFired <=> GateOpen(current_time, tick.t0.security_check,
                                   security_check_interval)
         /\ SummaryFired <=> GateOpen(current_time, tick.t0.security_send,
                                      security_send_interval)
    /\ tick.mode_read # "Away" => ~PollFired /\ ~SummaryFired
    /\ timers = [env_check |-> TimerAfter(EnvFired, "env_check"),
                 security_check |-> TimerAfter(PollFired, "security_check"),
                 security_send |-> TimerAfter(SummaryFired, "security_send")]


(***************************************************************************)
(* C17: a tick of the data-collection loop or of the sync loop that raises *)
(* is caught and the loop goes on to a later iteration; a loop exits only  *)
(* when the stop flag (running) is false, never because of a failed tick.  *)
(***************************************************************************)
DataTickFailed == dpc = "backoff"
SyncTickFailed == spc = "sleep" /\ sy.raised # "none"

C17_LoopsSurviveErrors ==
  /\ DataTickFailed ~> dpc = "top"
  /\ SyncTickFailed ~> spc \in {"top", "killed"}
  /\ [][/\ DataTickFailed => dpc' \in {"backoff", "top"}
        /\ (SyncTickFailed /\ spc' # spc) => spc' \in {"top", "killed"}
        /\ (dpc' = "done" /\ dpc # "done") => (dpc = "top" /\ ~running)
        /\ (spc' = "done" /\ spc # "done") => (spc = "top" /\ ~running)
        /\ (spc' = "killed" /\ spc # "killed") => ~running]_vars

\* both loops are back at the top of an iteration after a failed tick of each,
\* the stop flag still set to run
C17_Witness ==
  /\ running
  /\ dpc = "top" /\ ticks > 0 /\ timers.env_check = 0
  /\ spc = "top" /\ faults > 0

(***************************************************************************)
(* C18: once the stop flag is cleared each loop checks it at the top of    *)
(* its next iteration and terminates: under fairness both loops exit, and  *)
(* after the flag is cleared no loop starts another iteration (no tick is  *)
(* started, no sync attempt is begun).                                     *)
(***************************************************************************)
LoopsExited == dpc = "done" /\ spc \in {"done", "killed"}

C18_CooperativeShutdown ==
  /\ ~running ~> LoopsExited
  /\ [](~running => [](~running))
  /\ [][~running =>
          /\ ticks' = ticks
          /\ dpc = "top" => dpc' \in {"top", "done"}
          /\ spc = "top" => spc' \in {"top", "done", "killed"}
          /\ dpc = "done" => dpc' = "done"
          /\ spc \in {"done", "killed"} => spc' = spc]_vars

\* the flag was cleared while a tick and a sync were in progress, and both
\* loops have come to their end by reading it
C18_Witness ==
  /\ ~running
  /\ dpc = "done" /\ spc = "done"
  /\ ticks > 0 /\ Len(cloud_env) > 0


(***************************************************************************)
(* C19: e-mail alerts are rate-limited per alert type.  A request made     *)
(* within ALERT_COOLDOWN seconds of a sent alert of its type is            *)
(* suppressed: it sends nothing, returns false, and nothing is sent for it *)
(* later (an e-mail is only ever sent in the step of the request it        *)
(* answers).  A request outside the window of its own type is attempted,   *)
(* whatever was sent for the other types.                                  *)
(***************************************************************************)
NewRequest == alert_req' # alert_req /\ alert_req'.type # "none"
InWindow(alert_type, t) ==
  sent_at[alert_type] # 0 /\ t - sent_at[alert_type] < ALERT_COOLDOWN

C19_AlertCooldown ==
  [][/\ NewRequest =>
          /\ InWindow(alert_req'.type, alert_req'.at) =>
               /\ alert_req'.result = "suppressed"
               /\ sent_at' = sent_at
               /\ \A smtp_ok \in BOOLEAN :
                    ~send_smtp2go_alert(last_alert_time, alert_req'.type,
                                        alert_req'.at, smtp_ok).ret
          /\ ~InWindow(alert_req'.type, alert_req'.at) =>
               alert_req'.result \in {"sent", "failed"}
     /\ sent_at' # sent_at =>
          /\ NewRequest
          /\ alert_req'.result = "sent"
          /\ sent_at' = [sent_at EXCEPT ![alert_req'.type] = alert_req'.at]]_vars

\* a smoke alert is suppressed 5 s after a sent one, while the manual-capture
\* alert requested in the same tick was sent
C19_Witness ==
  /\ alert_req.type = "CRITICAL SMOKE ALERT"
  /\ alert_req.result = "suppressed"
  /\ alert_req.at = sent_at["CRITICAL SMOKE ALERT"] + security_check_interval
  /\ sent_at["Manual Photo Trigger"] = alert_req.at

(***************************************************************************)
(* C20: motion-triggered captures are rate-limited.  As stated: with the   *)
(* camera enabled, of two motion detections polled within                  *)
(* cooldown_duration seconds of each other at most one produces a capture, *)
(* and a motion detection polled more than cooldown_duration after the     *)
(* detection before it (or the first one) produces a capture.              *)
(***************************************************************************)
MotionDetected == motion_log'.at # motion_log.at
CaptureProduced == motion_log'.capture_at = motion_log'.at
PreviousCaptured == motion_log.at # 0 /\ motion_log.capture_at = motion_log.at
Latest(a, b) == IF a >= b THEN a ELSE b

IdLists(n) == UNION {[1..k -> 1..n] : k \in 0..n}

MarkIsIdempotent(table) ==
  \A ids \in IdLists(Len(table)) :
    LET once == mark_synced(table, ids)
        twice == mark_synced(once, ids)
    IN  /\ twice = once
        /\ Len(once) = Len(table)
        /\ \A i \in 1..Len(table) :
             /\ i \in Range(ids) => once[i] = [table[i] EXCEPT !.synced = 1]
             /\ i \notin Range(ids) => once[i] = table[i]

C21_MarkSyncedIdempotent ==
  MarkIsIdempotent(local_env) /\ MarkIsIdempotent(local_sec)

\* a sync has committed its marks while a later row of each table is unsynced,
\* and the sync loop is about to select again
C21_Witness ==
  /\ spc = "select_env"
  /\ \E i, j \in 1..Len(local_env) : local_env[i].synced = 1 /\ local_env[j].synced = 0
  /\ \E i, j \in 1..Len(local_sec) : local_sec[i].synced = 1 /\ local_sec[j].synced = 0


(***************************************************************************)
(* C22: the value returned by synchronize_to_cloud equals the number of    *)
(* local rows whose synced flag durably changed from 0 to 1 in that call,  *)
(* whatever the outcome of the call.  The rows the call fetched had        *)
(* synced = 0 and nothing else marks rows, so the rows it durably marked   *)
(* are the fetched rows that are committed with synced = 1 when it returns.*)
(***************************************************************************)
DurablyMarked(table, ids) ==
  Cardinality({n \in 1..Len(ids) : table[ids[n]].synced = 1})

C22_ReturnCountsMarkedRows ==
  SyncReturned =>
    sy.synced_count = DurablyMarked(local_env, sy.env_records)
                        + DurablyMarked(local_sec, sy.security_records)

\* What the code keeps of it: the count is right when no statement raised.
ReturnCountsMarkedRowsOnSuccess ==
  (SyncReturned /\ sy.raised = "none") =>
    sy.synced_count = DurablyMarked(local_env, sy.env_records)
                        + DurablyMarked(local_sec, sy.security_records)


(***************************************************************************)
(* C23: a failed local insert of a telemetry sample or of a security       *)
(* summary does not propagate into the polling loop.  The step of the      *)
(* failed insert adds no row and goes on to the publish; the tick that     *)
(* lost a sample ends with the env timer reset, the tick that lost a       *)
(* summary ends with the summary timer reset and the counts at zero; and   *)
(* nothing is retried: a table only ever grows by one row, in the step of  *)
(* its own gate, when that step's insert succeeded.                        *)
(***************************************************************************)
C23_FailedInsertIsDropped ==
  /\ [][/\ (tick'.lost_env /\ ~tick.lost_env)
             => local_env' = local_env /\ dpc' = "env_pub"
        /\ (tick'.lost_summary /\ ~tick.lost_summary)
             => local_sec' = local_sec /\ dpc' = "sec_pub"
        /\ local_env' # local_env
             => /\ dpc = "env" /\ ~tick'.lost_env
                /\ GateOpen(current_time, timers.env_check, env_interval)
                /\ Len(local_env') = Len(local_env) + 1
        /\ local_sec' # local_sec
             => /\ dpc = "summary" /\ ~tick'.lost_summary
                /\ GateOpen(current_time, timers.security_send, security_send_interval)
                /\ Len(local_sec') = Len(local_sec) + 1]_vars
  /\ [](TickCompleted =>
          /\ tick.lost_env => /\ timers.env_check = current_time
                              /\ tick.env_row = 0
          /\ tick.lost_summary => /\ timers.security_send = current_time
                                  /\ security_counts = ZeroCounts)

\* a tick that lost its summary ends with the counts reset, after a tick that
\* lost its sample: both tables are empty and both timers were reset
C23_Witness ==
  /\ TickCompleted
  /\ tick.lost_summary
  /\ security_counts = ZeroCounts
  /\ timers.security_send = current_time
  /\ timers.env_check = StartTime
  /\ local_env = <<>> /\ local_sec = <<>>


(***************************************************************************)
(* C24: the summary-report gate is evaluated on every tick of the          *)
(* data-collection loop, whatever the Mode: a tick that ran to its sleep   *)
(* with security_send_interval elapsed has persisted a summary and reset   *)
(* the counts if any count was above zero, so it ends with no count above  *)
(* zero.                                                                   *)
(***************************************************************************)
SummaryDue ==
  GateOpen(current_time, tick.t0.security_send, security_send_interval)

C24_SummaryGateInEveryTick ==
  (TickCompleted /\ SummaryDue) =>
    \/ tick.summary = "flushed" /\ security_counts = ZeroCounts
    \/ ~AnyCount(security_counts)

\* What the code keeps of it: the ticks that read Mode = Away.
SummaryGateInAwayTick ==
  (TickCompleted /\ SummaryDue /\ tick.mode_read = "Away") =>
    \/ tick.summary = "flushed" /\ security_counts = ZeroCounts
    \/ ~AnyCount(security_counts)


(***************************************************************************)
(* C25: sync is at-least-once.  In every reachable state, a crash at any   *)
(* point of a sync tick included, the data of every local row committed    *)
(* with synced = 1 is committed in the remote store; the local marks are   *)
(* committed only after the remote commit of the same call.  (A crash or a *)
(* failure between the two commits leaves the rows unsynced, and a later   *)
(* tick writes them to the remote store again.)                            *)
(***************************************************************************)
InCloudEnv(row) == \E m \in 1..Len(cloud_env) : cloud_env[m] = row.ts
InCloudSec(row) ==
  \E m \in 1..Len(cloud_sec) :
    cloud_sec[m] = [ts |-> row.ts, motion_count |-> row.motion_count,
                    smoke_count |-> row.smoke_count, sound_count |-> row.sound_count]

C25_AtLeastOnce ==
  /\ [](\A i \in 1..Len(local_env) : local_env[i].synced = 1 => InCloudEnv(local_env[i]))
  /\ [](\A i \in 1..Len(local_sec) : local_sec[i].synced = 1 => InCloudSec(local_sec[i]))
  /\ [][(\E i \in 1..Len(local_env) : local_env'[i].synced # local_env[i].synced)
          \/ (\E i \in 1..Len(local_sec) : local_sec'[i].synced # local_sec[i].synced)
        => sy.cloud_committed /\ spc = "local_commit"]_vars

\* a row was written to the remote store twice, by the tick that failed
\* between the two commits (or crashed there) and by the one that marked it
C25_Witness ==
  \E i \in 1..Len(local_env) :
    /\ local_env[i].synced = 1
    /\ \E m, n \in 1..Len(cloud_env) :
         m # n /\ cloud_env[m] = local_env[i].ts /\ cloud_env[n] = local_env[i].ts


(***************************************************************************)
(* C26: each shared mutable field (Mode, the counts, the capture and alert *)
(* cooldown timestamps, the connectivity flag) is written by at most one   *)
(* of the data-collection runloop and the command handler running on the   *)
(* receive loop; no field is written by both.  motion_log records the      *)
(* writes of last_capture_time made so far by each of the two.             *)
(***************************************************************************)
RunloopStep == dpc' # dpc
ReceiveLoopStep == hpc' # hpc \/ inbox' # inbox \/ mqtt_connected' # mqtt_connected

RunloopAlerts == {"Motion Detected", "CRITICAL SMOKE ALERT"}

SingleWriterElsewhere ==
  /\ system_mode' # system_mode => ReceiveLoopStep /\ ~RunloopStep
  /\ mqtt_connected' # mqtt_connected => ReceiveLoopStep /\ ~RunloopStep
  /\ security_counts' # security_counts => RunloopStep /\ ~ReceiveLoopStep
  /\ \A a \in AlertTypes :
       last_alert_time'[a] # last_alert_time[a] =>
         IF a \in RunloopAlerts THEN RunloopStep /\ ~ReceiveLoopStep
                                ELSE ReceiveLoopStep /\ ~RunloopStep

C26_SingleWriterPerField ==
  [][/\ SingleWriterElsewhere
     /\ (last_capture_time' # last_capture_time /\ RunloopStep)
          => motion_log.manual_at = 0
     /\ (last_capture_time' # last_capture_time /\ ReceiveLoopStep)
          => motion_log.capture_at = 0]_vars

\* What the code keeps of it: every field but last_capture_time has one writer.
SingleWriterButCaptureTime == [][SingleWriterElsewhere]_vars

(***************************************************************************)
(* C27: When setup_mqtt has failed (the creation of the client or the      *)
(* initial connect raised), the constructor returns and the loops run      *)
(* degraded: the connected flag stays False, every publish returns False   *)
(* and hands nothing to the transport, every iteration of the sync loop    *)
(* skips the sync, and the rows that the data-collection loop goes on      *)
(* inserting are all unsynced.                                             *)
(***************************************************************************)
Degraded == client.setup # "ok"

NothingSynced ==
  /\ \A i \in 1..Len(local_env) : local_env[i].synced = 0
  /\ \A i \in 1..Len(local_sec) : local_sec[i].synced = 0

C27_DegradedMode ==
  /\ [](Degraded =>
          /\ ~mqtt_connected
          /\ call.made => ~call.ret /\ ~call.handed /\ ~call.raised
          /\ pub.idx > 0 => ~pub.success
          /\ spc \notin SyncPositions
          /\ NothingSynced
          /\ cloud_env = <<>> /\ cloud_sec = <<>>
          /\ broker_subs = {}
          /\ dpc # "done" /\ spc # "done")
  /\ [][(Degraded /\ spc = "check" /\ spc' # spc) => (spc' = "sleep" /\ ~sy'.observed)]_vars

\* the connect has raised; the data loop has inserted a row since and gone
\* on to a later tick, the sync loop has skipped its sync and a publish has
\* returned False
C27_Witness ==
  /\ client.setup = "connect_raises"
  /\ Started
  /\ Len(local_env) > 0
  /\ ticks > 1
  /\ spc = "sleep"
  /\ ~sy.observed
  /\ call.made
  /\ ~call.ret

(***************************************************************************)
(* C29: No subscription is lost at startup.  However the statements of     *)
(* subscribe_to_feeds on the main thread (store the feeds, test the flag,  *)
(* subscribe) interleave with those of on_mqtt_connect on the network      *)
(* thread (set the flag, test the stored feeds, subscribe them), once      *)
(* setup_control_subscribers has returned and a successful connect has     *)
(* been handled, every control feed is subscribed at the broker; and no    *)
(* subscription is issued, and no message handed over, before the command  *)
(* handler is registered.                                                  *)
(***************************************************************************)
ConnectHandled == mqtt_connected /\ client.cpc = "idle"

C29_NoSubscriptionLost ==
  /\ (Started /\ ConnectHandled) => ControlFeeds \subseteq broker_subs
  /\ (broker_subs # {} \/ inbox # NoMessage) => client.handler

\* the connect was handled before the main thread had stored the feeds, so
\* the callback subscribed nothing and the main thread subscribed them all
C29_Witness ==
  /\ Started
  /\ ConnectHandled
  /\ resubscribed = {}
  /\ broker_subs = ControlFeeds

\* the other order: the main thread saw the flag down and returned, and the
\* callback subscribed the stored feeds
CallbackSubscribes ==
  /\ Started
  /\ ConnectHandled
  /\ resubscribed = ControlFeeds
  /\ broker_subs = ControlFeeds

(***************************************************************************)
(* C28: The capture cooldown suppresses the capture and its alert, not the *)
(* detection: every security poll that reads the PIR sensor high, inside   *)
(* the cooldown window or not, returns motion_detected = True and adds one *)
(* to the motion count.                                                    *)
(***************************************************************************)
MotionCounted == security_counts'.motion = security_counts.motion + 1

C28_CooldownKeepsDetection ==
  [][MotionDetected => MotionCounted /\ detected'.motion = detected.motion + 1]_vars

\* What the code does: inside the cooldown window get_security_data clears
\* motion_detected, so a detection is counted iff it produced a capture.
DetectionCountedIffCaptured ==
  [][MotionDetected =>
       IF CaptureProduced THEN MotionCounted
                          ELSE security_counts' = security_counts]_vars

(***************************************************************************)
(* C30: A telemetry row inserted after a sync tick has selected the        *)
(* unsynced rows is not marked by that tick: it is unsynced when the tick  *)
(* ends.  If the client is eventually connected for good, a later tick     *)
(* marks it, its data being in the remote store then.  A flag that a tick  *)
(* sets is the flag of a row of the batch that the tick wrote to the       *)
(* remote store.                                                           *)
(***************************************************************************)
AfterSelectEnv == {"write_env", "select_sec", "write_sec", "cloud_commit", "local_commit"}
AfterSelectSec == {"write_sec", "cloud_commit", "local_commit"}

\* row i of the table was inserted after the select of the tick in progress
Late(table, records, i) ==
  i <= Len(table) /\ table[i].synced = 0 /\ i \notin Range(records)

LateEnv(i) == spc \in AfterSelectEnv /\ Late(local_env, sy.env_records, i)
LateSec(i) == spc \in AfterSelectSec /\ Late(local_sec, sy.security_records, i)

\* row i is marked synced and its data is in the remote store
EnvDrained(i) ==
  IF i <= Len(local_env)
    THEN local_env[i].synced = 1 /\ InCloudEnv(local_env[i]) ELSE FALSE

\* the tick in progress goes on or ends
SameTick == spc' \in AfterSelectEnv \cup {"sleep"}

C30_LateRowWaitsForNextTick ==
  /\ [][SameTick => \A i \in 1..Len(local_env) : LateEnv(i) => local_env'[i].synced = 0]_vars
  /\ [][\A i \in 1..Len(local_env) :
          local_env'[i].synced # local_env[i].synced =>
            /\ sy.env = "written" /\ i \in Range(sy.env_records)
            /\ InCloudEnv(local_env[i])]_vars
  /\ (<>[]mqtt_connected) =>
       \A i \in 1..MaxEnvRows : [](LateEnv(i) => <>EnvDrained(i))

\* The same of the summary rows, crashes and failed inserts included: a row
\* inserted after the select of security_data is not marked by the tick, and
\* a flag is set only for a row of the batch written.
LateSummaryWaits ==
  /\ [][SameTick => \A i \in 1..Len(local_sec) : LateSec(i) => local_sec'[i].synced = 0]_vars
  /\ [][\A i \in 1..Len(local_sec) :
          (i <= Len(local_sec') /\ local_sec'[i].synced # local_sec[i].synced) =>
            /\ sy.sec = "written" /\ i \in Range(sy.security_records)
            /\ InCloudSec(local_sec[i])]_vars

\* a tick has written and marked its batch, and a row inserted after its
\* select is still unsynced
C30_Witness ==
  /\ spc = "sleep"
  /\ sy.local_committed
  /\ sy.env = "written"
  /\ AllSynced(local_env, sy.env_records)
  /\ \E i \in 1..Len(local_env) : Late(local_env, sy.env_records, i)

(***************************************************************************)
(* C33: Every security poll that detects smoke requests a smoke alert,     *)
(* whether or not the PIR sensor is high on the same poll and whatever the *)
(* capture cooldown; only the cooldown of the smoke alert itself may then  *)
(* suppress the e-mail.                                                    *)
(***************************************************************************)
SmokeDetected == security_counts'.smoke = security_counts.smoke + 1
SmokeAlertRequested == NewRequest /\ alert_req'.type = "CRITICAL SMOKE ALERT"

C33_SmokeAlwaysAlerts == [][SmokeDetected => SmokeAlertRequested]_vars

\* What the code does: the smoke alert is the elif of the motion test, so it
\* is requested only on a poll without a motion detection of the camera.
SmokeAlertUnlessMotion ==
  [][SmokeDetected =>
       (SmokeAlertRequested <=> ~(tick'.pir /\ camera_enabled))]_vars

(***************************************************************************)
(* C34: A capture command always leads to a manual capture, whatever the   *)
(* time since the last capture, and the manual capture sets the capture    *)
(* timestamp that the motion path tests; so a motion detection polled      *)
(* within cooldown_duration of a manual capture produces no capture.  The  *)
(* poll is the step that makes the cooldown test: the whole poll where it  *)
(* is one step, the entry of capture_image where the capture is split.     *)
(***************************************************************************)
CaptureCommandTaken ==
  /\ hpc = "idle"
  /\ inbox # NoMessage
  /\ is_capture_command(inbox.feed, inbox.payload)
  /\ hpc' # hpc \/ inbox' # inbox

ManualCaptureDone == hist'.capture = hist.capture + 1

\* the motion path has tested the cooldown in this step
MotionPolled ==
  \/ MotionDetected /\ ~in_capture.runloop
  \/ in_capture'.runloop /\ ~in_capture.runloop

\* and has decided to capture
MotionCaptures ==
  \/ MotionDetected /\ ~in_capture.runloop /\ CaptureProduced
  \/ in_capture'.runloop /\ ~in_capture.runloop

AfterManualCapture == motion_log.manual_at # 0 /\ now - motion_log.manual_at <= cooldown_duration

C31_OneCaptureAtATime == ~(in_capture.runloop /\ in_capture.handler)

\* What the code keeps: each of the two threads is in at most one capture of
\* its own, the data-collection loop only from a poll whose cooldown test
\* passed, the handler only for a capture command.
CapturesPerThread ==
  /\ in_capture.runloop <=> dpc = "capturing"
  /\ in_capture.handler <=> hpc = "capturing"
  /\ in_capture.runloop => now - in_capture.seen > cooldown_duration
  /\ in_capture.handler => is_capture_command(inbox.feed, inbox.payload)

(***************************************************************************)
(* C32: The acknowledgment PHOTO_TAKEN that the handler publishes to the   *)
(* camera-trigger feed comes back through the device's own subscription.   *)
(* Its handling makes no capture, sends no acknowledgment and changes no   *)
(* state; an acknowledgment reaches the broker only from the handling of a *)
(* capture command, which makes one capture and sends one acknowledgment.  *)
(***************************************************************************)
HandlerStep == inbox # NoMessage /\ (hpc' # hpc \/ inbox' # inbox)

C32_NoFeedbackLoop ==
  /\ [][(hist.echo /\ HandlerStep) =>
          /\ hpc' = "idle" /\ inbox' = NoMessage
          /\ hist' = [hist EXCEPT !.done = TRUE]
          /\ UNCHANGED <<system_mode, devices, secVars, alertVars, echo_due, call,
                         mqtt_connected>>]_vars
  /\ [](hist.echo => hist.capture = 0 /\ hist.ack = 0 /\ hist.handed = 0)
  /\ [][(echo_due' /\ ~echo_due) =>
          /\ ~hist.echo
          /\ hist.feed = CONTROL_FEEDS.camera /\ IsCaptureCommand(hist.payload)
          /\ hist.capture = 1 /\ hist.ack = 0 /\ hist'.ack = 1]_vars
  /\ []((hist.done /\ hist.feed = CONTROL_FEEDS.camera /\ IsCaptureCommand(hist.payload))
          => hist.capture = 1 /\ hist.ack = 1)

\* the acknowledgment of a manual capture has come back and has been handled
C32_Witness ==
  /\ hist.echo
  /\ hist.done
  /\ motion_log.manual_at # 0
  /\ ~echo_due
  /\ hpc = "idle"

=============================================================================
